---- MODULE Spec2Model ----
(***************************************************************************)
(* The DMA 20-50-100-200 crossover backtester of Equity_Automation:        *)
(*   DMA_trading_strategy_backtester.py  (variant "backtester")            *)
(*   download_and_plot_2.py              (variant "plot2")                 *)
(*   download_and_plot.py                (variant "plot")                  *)
(* One run of a script is modelled: download, the walk over the rows of    *)
(* the indicator-augmented frame, the end-of-series block and the report.  *)
(*                                                                         *)
(* Prices are integers (ticks).  Every window divides Scale = 200, so a    *)
(* moving average is held exactly as Scale times its value.  Money written *)
(* to a record by round(x, 2) is held in hundredths of a tick.  NaN is the *)
(* integer -1 (no price is negative) and compares false with everything.   *)
(***************************************************************************)
EXTENDS Integers, Sequences, FiniteSets, TLC

(* ------------------------------------------------------------------ *)
(* Program constants                                                   *)
(* ------------------------------------------------------------------ *)
investment == 100000
W20 == 20
W50 == 50
W100 == 100
W200 == 200
WarmUp == 199
DaysPerYear == 365
DaysPerMonth == 30
\* the swing-trade scripts: window of the average and of the minimum, the money
\* put into one buy by analyze_stock and by TradeAnalyzer.calculate_trades
SwingWindow == 20
stock_budget == 100000
analyzer_budget == 10000

(* ------------------------------------------------------------------ *)
(* Bounds of the input family                                          *)
(* ------------------------------------------------------------------ *)
MaxSegs == 4
MaxLevel == 3
TinyLead == 5
ShortLead == 150
BatchLen == 2
MaxTail == 3
SwingLevels == 3

Scale == W200
NaN == 0 - 1
Variants == {"backtester", "plot2", "plot"}

(* ------------------------------------------------------------------ *)
(* Tagged cell values of a record: a number, a date, or a text cell    *)
(* ------------------------------------------------------------------ *)
Num(x) == [num |-> x]
DateCell(d) == [date |-> d]
Text(s) == [text |-> s]

(* ------------------------------------------------------------------ *)
(* Input family: what yf.download returns.  A response is a step       *)
(* series: a lead plateau, then alternately a single day and a plateau *)
(* of W200 days, each at a price level 2^(l-1).  nan > 0 marks the raw *)
(* row whose Close is NaN; dup makes the first row of every later      *)
(* plateau repeat the timestamp of the row before it.  Short responses *)
(* have a lead shorter than the longest window.                        *)
(* ------------------------------------------------------------------ *)
Levels == 1 .. MaxLevel
Price(l) == 2 ^ (l - 1)
Plateau == W200

\* price levels of k segments, lo <= k <= hi
PriceSeqs(lo, hi) == UNION {[1 .. k -> Levels] : k \in lo .. hi}
\* ... in which every segment steps away from the one before
StepSeqs(lo, hi) ==
  {ps \in PriceSeqs(lo, hi) : \A j \in 2 .. Len(ps) : ps[j] # ps[j - 1]}
\* ... in which no segment does
FlatSeqs(lo, hi) ==
  {ps \in PriceSeqs(lo, hi) : \A j \in 2 .. Len(ps) : ps[j] = ps[j - 1]}

MainDescs == {[lead |-> Plateau, prices |-> ps, nan |-> 0, dup |-> FALSE] :
                ps \in StepSeqs(0, MaxSegs) \cup FlatSeqs(2, MaxSegs)}
ShortDescs == {[lead |-> ld, prices |-> ps, nan |-> 0, dup |-> FALSE] :
                ld \in {TinyLead, ShortLead, W200 - 1}, ps \in PriceSeqs(1, 2)}
DupDescs == {[lead |-> Plateau, prices |-> ps, nan |-> 0, dup |-> TRUE] :
                ps \in StepSeqs(3, 3)}
NaNDescs == {[lead |-> Plateau, prices |-> ps, nan |-> Plateau + 1, dup |-> FALSE] :
                ps \in StepSeqs(3, 3)}
            \cup {[lead |-> 1, prices |-> ps, nan |-> 1, dup |-> FALSE] :
                    ps \in PriceSeqs(1, 1)}
\* one response on which two positions are opened and closed in turn and a
\* third is open at the end
TwoSaleDescs ==
  {[lead |-> Plateau, prices |-> <<2, 1, 3, 1, 4, 1>>, nan |-> 0, dup |-> FALSE]}
Descs == MainDescs \cup ShortDescs \cup DupDescs \cup NaNDescs \cup TwoSaleDescs

SegLen(d, j) == IF j = 1 THEN d.lead ELSE IF j % 2 = 0 THEN 1 ELSE Plateau

RECURSIVE SegStart(_, _)
\* number of raw rows before segment j
SegStart(d, j) == IF j = 1 THEN 0 ELSE SegStart(d, j - 1) + SegLen(d, j - 1)
RawLen(d) == SegStart(d, Len(d.prices) + 1)
RECURSIVE SegOf(_, _, _)
\* the segment holding raw row r (1-based), searching from segment j
SegOf(d, r, j) == IF r <= SegStart(d, j + 1) THEN j ELSE SegOf(d, r, j + 1)
\* rows whose timestamp repeats: the first row of segments 3, 5, ... when d.dup
Repeats(d, r) ==
  IF d.dup THEN Cardinality({j \in 3 .. Len(d.prices) :
                               j % 2 = 1 /\ SegStart(d, j) + 1 <= r})
  ELSE 0
RawRow(d, r) ==
  [Date |-> (r - 1) - Repeats(d, r),
   Close |-> IF r = d.nan THEN NaN ELSE Price(d.prices[SegOf(d, r, 1)])]
download(d) == [r \in 1 .. RawLen(d) |-> RawRow(d, r)] \o <<>>

(* ------------------------------------------------------------------ *)
(* Indicator calculator                                                *)
(* ------------------------------------------------------------------ *)
\* mutant: the rows with a NaN Close stay in the frame
dropna_KeepsAll(rows) == rows

\* data.dropna(subset=['Close'])
dropna(rows) == SelectSeq(rows, LAMBDA row : row.Close # NaN)

RECURSIVE cumsum(_, _, _, _)
\* running sums of Close over rows lo..hi, continuing from base
cumsum(rows, lo, hi, base) ==
  IF lo > hi THEN <<>>
  ELSE IF lo = hi THEN <<base + rows[lo].Close>>
  ELSE LET m == (lo + hi) \div 2
           left == cumsum(rows, lo, m, base)
       IN left \o cumsum(rows, m + 1, hi, left[Len(left)])

\* mutant: rolling(window=w, min_periods=1), the mean of the rows there are
\* (to the unit below) where the window is not full
rolling_mean_Partial(rows, w) ==
  LET P == cumsum(rows, 1, Len(rows), 0)
  IN [n \in 1 .. Len(rows) |->
        IF n < w THEN (P[n] * Scale) \div n
        ELSE (P[n] - (IF n = w THEN 0 ELSE P[n - w])) * (Scale \div w)] \o <<>>

\* mutant: the window is centred one row later: it holds the close after
\* the row (the last row keeps its own window)
rolling_mean_LookAhead(rows, w) ==
  LET P == cumsum(rows, 1, Len(rows), 0)
  IN [n \in 1 .. Len(rows) |->
        LET e == IF n < Len(rows) THEN n + 1 ELSE n
        IN IF e < w THEN NaN
           ELSE (P[e] - (IF e = w THEN 0 ELSE P[e - w])) * (Scale \div w)] \o <<>>

\* data['Close'].rolling(window=w).mean(), as Scale times the mean;
\* NaN on the first w-1 rows
rolling_mean(rows, w) ==
  LET P == cumsum(rows, 1, Len(rows), 0)
  IN [n \in 1 .. Len(rows) |->
        IF n < w THEN NaN
        ELSE (P[n] - (IF n = w THEN 0 ELSE P[n - w])) * (Scale \div w)] \o <<>>

\* the frame the walk reads: the cleaned rows with the four DMA columns
Frame(d) ==
  LET rows == dropna(download(d))
      m20 == rolling_mean(rows, W20)
      m50 == rolling_mean(rows, W50)
      m100 == rolling_mean(rows, W100)
      m200 == rolling_mean(rows, W200)
  IN [n \in 1 .. Len(rows) |->
        [Date |-> rows[n].Date, Close |-> rows[n].Close,
         DMA_20 |-> m20[n], DMA_50 |-> m50[n],
         DMA_100 |-> m100[n], DMA_200 |-> m200[n]]] \o <<>>

\* mutant: a response shorter than the longest window counts as no data
data_empty_Short(d) == RawLen(d) < W200

\* data.empty, on the response as downloaded
data_empty(d) == RawLen(d) = 0

\* responses and frames are computed once per input
Frames == [d \in Descs |-> [raw_empty |-> data_empty(d), rows |-> Frame(d)]] @@ <<>>

(* ------------------------------------------------------------------ *)
(* The swing-trade scripts ("yf test.py", backtest_1_month.py and      *)
(* backtest_20_days_from_bse_csv.py).  Their input is a plateau of     *)
(* lead rows at SwingPrice(base), then the rows of tail; nan > 0 marks *)
(* the raw row whose prices are NaN, gap is Close - Low of every row,  *)
(* desc says that the file lists the newest row first.                 *)
(* ------------------------------------------------------------------ *)
SwingPrice(l) == 10 * l
SwingBase == SwingLevels - 1
Tails(lo, hi) == UNION {[1 .. k -> 1 .. SwingLevels] : k \in lo .. hi}
SwingGaps == {0, 5}
PlainSwing ==
  {[lead |-> ld, base |-> SwingBase, tail |-> t, nan |-> 0, gap |-> g, desc |-> o] :
     ld \in {SwingWindow - 1, SwingWindow}, t \in Tails(0, MaxTail),
     g \in SwingGaps, o \in BOOLEAN}
ShortSwing ==
  {[lead |-> ld, base |-> SwingBase, tail |-> t, nan |-> 0, gap |-> g, desc |-> o] :
     ld \in {0, TinyLead}, t \in Tails(0, 1), g \in SwingGaps, o \in BOOLEAN}
\* a NaN row first and a full window after it, or a NaN row right after the plateau
NaNSwing ==
  {[lead |-> SwingWindow + 1, base |-> SwingBase, tail |-> t, nan |-> 1,
    gap |-> g, desc |-> o] : t \in Tails(1, 2), g \in SwingGaps, o \in BOOLEAN}
  \cup
  {[lead |-> SwingWindow, base |-> SwingBase, tail |-> t, nan |-> SwingWindow + 1,
    gap |-> g, desc |-> o] : t \in Tails(2, MaxTail), g \in SwingGaps, o \in BOOLEAN}
SwingDescs == PlainSwing \cup ShortSwing \cup NaNSwing

SwingLen(d) == d.lead + Len(d.tail)
\* the row dated r - 1
SwingRow(d, r) ==
  LET close == IF r <= d.lead THEN SwingPrice(d.base) ELSE SwingPrice(d.tail[r - d.lead])
  IN [Date |-> r - 1,
      Close |-> IF r = d.nan THEN NaN ELSE close,
      Low |-> IF r = d.nan THEN NaN ELSE close - d.gap]
\* the rows in the order of the file
read_csv(d) ==
  [k \in 1 .. SwingLen(d) |->
     SwingRow(d, IF d.desc THEN SwingLen(d) + 1 - k ELSE k)] \o <<>>

RECURSIVE sort_values(_)
\* df.sort_values('Date', ascending=True).reset_index(drop=True)
sort_values(rows) ==
  IF rows = <<>> THEN <<>>
  ELSE LET r == rows[Len(rows)]
           sorted == sort_values(SubSeq(rows, 1, Len(rows) - 1))
           k == Cardinality({j \in 1 .. Len(sorted) : sorted[j].Date <= r.Date})
       IN SubSeq(sorted, 1, k) \o <<r>> \o SubSeq(sorted, k + 1, Len(sorted))

RECURSIVE window_sum(_, _, _)
\* col[lo] + ... + col[hi]
window_sum(col, lo, hi) == IF lo > hi THEN 0 ELSE col[lo] + window_sum(col, lo + 1, hi)
window_has_nan(col, lo, hi) == \E k \in lo .. hi : col[k] = NaN

\* col.rolling(window=w).mean(), as Scale times the mean; NaN while the window
\* is not full or holds a NaN
swing_mean(col, w) ==
  [n \in 1 .. Len(col) |->
     IF n < w \/ window_has_nan(col, n - w + 1, n) THEN NaN
     ELSE window_sum(col, n - w + 1, n) * (Scale \div w)] \o <<>>

\* col.rolling(window=w).min()
swing_min(col, w) ==
  [n \in 1 .. Len(col) |->
     IF n < w \/ window_has_nan(col, n - w + 1, n) THEN NaN
     ELSE CHOOSE m \in {col[k] : k \in n - w + 1 .. n} :
            \A k \in n - w + 1 .. n : m <= col[k]] \o <<>>

\* the frame with its indicator columns: SMA_20 (Monthly_Avg in analyze_stock),
\* Monthly_Low (the minimum of Close) and Low_20 (the minimum of Low Price)
SignalFrame(d) ==
  LET rows == sort_values(read_csv(d))
      close == [n \in 1 .. Len(rows) |-> rows[n].Close]
      low == [n \in 1 .. Len(rows) |-> rows[n].Low]
      avg == swing_mean(close, SwingWindow)
      cmin == swing_min(close, SwingWindow)
      lmin == swing_min(low, SwingWindow)
  IN [n \in 1 .. Len(rows) |->
        [Idx |-> n - 1, Date |-> rows[n].Date, Close |-> rows[n].Close,
         Low |-> rows[n].Low, SMA_20 |-> avg[n], Monthly_Low |-> cmin[n],
         Low_20 |-> lmin[n]]] \o <<>>

\* df.dropna() of backtest_1_month.py: the rows without a NaN in any column
dropna_all(frame) ==
  SelectSeq(frame, LAMBDA r : r.Close # NaN /\ r.SMA_20 # NaN /\ r.Monthly_Low # NaN)

\* frames are computed once per input; row is what the walk of a script reads
SwingFrames ==
  [d \in SwingDescs |->
     LET f == SignalFrame(d) IN [full |-> f, clean |-> dropna_all(f)]] @@ <<>>

(* ------------------------------------------------------------------ *)
(* Arithmetic of the records                                           *)
(* ------------------------------------------------------------------ *)
\* round(n / d, 2) in hundredths, d > 0, ties to even
Round2(n, d) ==
  LET q == (100 * n) \div d
      r == (100 * n) % d
  IN IF 2 * r < d THEN q
     ELSE IF 2 * r > d THEN q + 1
     ELSE IF q % 2 = 0 THEN q ELSE q + 1

\* investment / buy_price, an exact quotient
Shares(amount, price) == [n |-> amount, d |-> price]
NoShares == [n |-> 0, d |-> 1]
\* mutant: the proceeds of the sale, current_holding * price
PnLNum_Proceeds(holding, price) == holding.n * price

\* current_holding * price - investment, as numerator over current_holding.d
PnLNum(holding, price) == holding.n * price - investment * holding.d

\* mutant: a NaN on either side lets the comparison pass
lt_NaNPasses(a, b) == a = NaN \/ b = NaN \/ a < b

\* mutant: the comparison is not strict
lt_OrEqual(a, b) == a # NaN /\ b # NaN /\ a <= b

\* a comparison of two floats: false when either is NaN
lt(a, b) == a # NaN /\ b # NaN /\ a < b

(* ------------------------------------------------------------------ *)
(* State of one run                                                    *)
(* ------------------------------------------------------------------ *)
VARIABLES
  variant,            \* which script runs
  src,                \* the provider's response to yf.download
  pc,                 \* "download", "walk", "report", "done", "exit", "crashed"
  exit_status,        \* process exit status, -1 while running
  i,                  \* loop index of the walk
  in_market, buy_price, current_holding, entry_date,
  entry_i,            \* history: the index at which entry_date was set
  trades, buy_markers, sell_markers,
  unrealized_pnl,     \* numerator over current_holding.d, 0 when flat
  consolidated_file,  \* lines of consolidated_trade_summary.csv, <<>> when absent
  trade_logs,         \* lines of trade_logs.csv, <<>> when absent
  summary_files,      \* stock name -> content of <stock>_trade_summary.csv
  driver,             \* batch driver: "none" (no driver), "loop", "waiting"
  stocks,             \* the tickers the script is run for, in order
  ticker,             \* index in stocks of the run in hand
  children,           \* runs the driver has started and not yet waited for
  workers,            \* runs of the script that execute at the same time, <<>> if none
  df,                 \* the input of a swing-trade script
  position, quantity, \* analyze_stock
  holdings, current_buy_value, running_investment, running_returns,
  current_holdings    \* TradeAnalyzer.calculate_trades

vars == <<variant, src, pc, exit_status, i, in_market, buy_price, current_holding,
          entry_date, entry_i, trades, buy_markers, sell_markers, unrealized_pnl,
          consolidated_file, trade_logs, summary_files, driver, stocks, ticker,
          children, workers, df, position, quantity, holdings, current_buy_value,
          running_investment, running_returns, current_holdings>>
swing_vars == <<df, position, quantity, holdings, current_buy_value,
                running_investment, running_returns, current_holdings>>
batch_vars == <<driver, stocks, ticker, children, workers>>
log_vars == <<trade_logs, summary_files>>

data == Frames[src].rows
Row(k) == data[k + 1]
Close(k) == Row(k).Close
None == 0 - 1
default_stock == "UNIONBANK"
\* no csv file loaded
NoFile == [lead |-> 0, base |-> SwingBase, tail |-> <<>>, nan |-> 0, gap |-> 0,
           desc |-> FALSE]
\* the swing-trade variables of a run that uses none of them
SwingIdle ==
  /\ df = NoFile
  /\ position = FALSE
  /\ quantity = 0
  /\ holdings = 0
  /\ current_buy_value = 0
  /\ running_investment = 0
  /\ running_returns = 0
  /\ current_holdings = <<>>
\* stock_name of the run in hand
stock_name == stocks[ticker]

Init ==
  /\ variant \in Variants
  /\ src \in Descs
  /\ pc = "download"
  /\ exit_status = 0 - 1
  /\ i = 0
  /\ in_market = FALSE
  /\ buy_price = 0
  /\ current_holding = NoShares
  /\ entry_date = None
  /\ entry_i = None
  /\ trades = <<>>
  /\ buy_markers = <<>>
  /\ sell_markers = <<>>
  /\ unrealized_pnl = 0
  /\ consolidated_file = <<>>
  /\ trade_logs = <<>>
  /\ summary_files = <<>>
  /\ driver = "none"
  /\ stocks = <<default_stock>>
  /\ ticker = 1
  /\ children = {}
  /\ workers = <<>>
  /\ SwingIdle

walk_vars == <<in_market, buy_price, current_holding, entry_date, entry_i,
               trades, buy_markers, sell_markers>>

(* ------------------------------------------------------------------ *)
(* Download and the data.empty check                                   *)
(* ------------------------------------------------------------------ *)
ChecksEmpty(v) == v # "plot"

\* mutant: the empty frame is not checked and the run goes on to the walk
NoData_GoesOn ==
  /\ pc = "download"
  /\ ChecksEmpty(variant) /\ Frames[src].raw_empty
  /\ pc' = "walk"
  /\ UNCHANGED <<swing_vars, batch_vars, log_vars, variant, src, exit_status, i, walk_vars,
                 unrealized_pnl, consolidated_file>>

NoData ==
  /\ pc = "download"
  /\ ChecksEmpty(variant) /\ Frames[src].raw_empty
  /\ pc' = "exit"
  /\ exit_status' = 1
  /\ UNCHANGED <<swing_vars, batch_vars, log_vars, variant, src, i, walk_vars, unrealized_pnl, consolidated_file>>

Download ==
  /\ pc = "download"
  /\ ~(ChecksEmpty(variant) /\ Frames[src].raw_empty)
  /\ pc' = "walk"
  /\ UNCHANGED <<swing_vars, batch_vars, log_vars, variant, src, exit_status, i, walk_vars, unrealized_pnl,
                 consolidated_file>>

(* ------------------------------------------------------------------ *)
(* The walk: one action per iteration of "for i in range(len(data))"   *)
(* ------------------------------------------------------------------ *)
InLoop == pc = "walk" /\ i < Len(data)

\* mutant: every script guards with "i > 0"
LoopGuard_FromFirstRow(v, k) == k > 0

\* "i > 199" of the backtester and download_and_plot_2, "i > 0" of download_and_plot
LoopGuard(v, k) == IF v = "plot" THEN k > 0 ELSE k > WarmUp

\* Close < DMA_20 < DMA_50 < DMA_100 < DMA_200
BuyCondition(k) ==
  /\ lt(Close(k) * Scale, Row(k).DMA_20)
  /\ lt(Row(k).DMA_20, Row(k).DMA_50)
  /\ lt(Row(k).DMA_50, Row(k).DMA_100)
  /\ lt(Row(k).DMA_100, Row(k).DMA_200)

\* mutant: the sell condition without "Close > buy_price"
SellCondition_NoGuard(k, bp) ==
  /\ lt(Row(k).DMA_200, Row(k).DMA_100)
  /\ lt(Row(k).DMA_100, Row(k).DMA_50)
  /\ lt(Row(k).DMA_50, Row(k).DMA_20)
  /\ lt(Row(k).DMA_20, Close(k) * Scale)

\* DMA_200 < DMA_100 < DMA_50 < DMA_20 < Close and Close > buy_price
SellCondition(k, bp) ==
  /\ lt(Row(k).DMA_200, Row(k).DMA_100)
  /\ lt(Row(k).DMA_100, Row(k).DMA_50)
  /\ lt(Row(k).DMA_50, Row(k).DMA_20)
  /\ lt(Row(k).DMA_20, Close(k) * Scale)
  /\ Close(k) > bp

\* mutant: the buy branch does not test in_market
BuyFires_NoFlatCheck == LoopGuard(variant, i) /\ BuyCondition(i)

\* the "if" branch is entered and its condition holds
BuyFires == ~in_market /\ LoopGuard(variant, i) /\ BuyCondition(i)
\* the "elif" branch is entered and its condition holds
SellFires ==
  /\ ~(~in_market /\ LoopGuard(variant, i))
  /\ in_market /\ LoopGuard(variant, i)
  /\ SellCondition(i, buy_price)

\* the scripts that test "if duration_in_days > 0" before dividing
GuardsZeroDuration(v) == v # "plot"

\* mutant: the else branch is taken whatever the duration
effective_annual_gain_ZeroBranch(holding, sell_price, duration_in_days) == Num(0)

\* (((current_holding * sell_price) / investment) ** (1 / years_fraction) - 1) * 100
\* is kept as its operands; the else branch stores the number 0
effective_annual_gain(holding, sell_price, duration_in_days) ==
  IF duration_in_days > 0
  THEN [pow |-> [n |-> holding.n * sell_price, d |-> holding.d * investment,
                 days |-> duration_in_days]]
  ELSE Num(0)

\* the division by years_fraction is reached with duration_in_days = 0
ZeroDivides == ~GuardsZeroDuration(variant) /\ Row(i).Date - entry_date = 0

\* mutant: the record's two dates change places
CompletedRecord_SwapDates(v, entry, exit, bp, sell_price, holding) ==
  LET duration_in_days == exit - entry
      profit_or_loss == PnLNum(holding, sell_price)
  IN IF v = "backtester"
     THEN [Entry_Date |-> DateCell(exit), Exit_Date |-> DateCell(entry),
           Holding_Period_Months |-> Num(Round2(duration_in_days, DaysPerMonth)),
           Buy_Price |-> Num(100 * bp), Sell_Price |-> Num(100 * sell_price),
           Profit_Loss |-> Num(Round2(profit_or_loss, holding.d)),
           Effective_Annual_Gain |->
             effective_annual_gain(holding, sell_price, duration_in_days),
           Status |-> "Completed"]
     ELSE [Entry_Date |-> DateCell(exit), Exit_Date |-> DateCell(entry),
           Holding_Period_Y |-> Num(duration_in_days \div DaysPerYear),
           Holding_Period_M |-> Num((duration_in_days % DaysPerYear) \div DaysPerMonth),
           Buy_Price |-> Num(100 * bp), Sell_Price |-> Num(100 * sell_price),
           Profit_Loss |-> Num(Round2(profit_or_loss, holding.d)),
           Effective_Annual_Gain |->
             effective_annual_gain(holding, sell_price, duration_in_days),
           Status |-> "Completed"]

CompletedRecord(v, entry, exit, bp, sell_price, holding) ==
  LET duration_in_days == exit - entry
      profit_or_loss == PnLNum(holding, sell_price)
  IN IF v = "backtester"
     THEN [Entry_Date |-> DateCell(entry), Exit_Date |-> DateCell(exit),
           Holding_Period_Months |-> Num(Round2(duration_in_days, DaysPerMonth)),
           Buy_Price |-> Num(100 * bp), Sell_Price |-> Num(100 * sell_price),
           Profit_Loss |-> Num(Round2(profit_or_loss, holding.d)),
           Effective_Annual_Gain |->
             effective_annual_gain(holding, sell_price, duration_in_days),
           Status |-> "Completed"]
     ELSE [Entry_Date |-> DateCell(entry), Exit_Date |-> DateCell(exit),
           Holding_Period_Y |-> Num(duration_in_days \div DaysPerYear),
           Holding_Period_M |-> Num((duration_in_days % DaysPerYear) \div DaysPerMonth),
           Buy_Price |-> Num(100 * bp), Sell_Price |-> Num(100 * sell_price),
           Profit_Loss |-> Num(Round2(profit_or_loss, holding.d)),
           Effective_Annual_Gain |->
             effective_annual_gain(holding, sell_price, duration_in_days),
           Status |-> "Completed"]

Buy ==
  /\ InLoop /\ BuyFires
  /\ buy_price' = Close(i)
  /\ current_holding' = Shares(investment, Close(i))
  /\ entry_date' = Row(i).Date
  /\ entry_i' = i
  /\ in_market' = TRUE
  /\ buy_markers' = Append(buy_markers, <<Row(i).Date, Close(i)>>)
  /\ i' = i + 1
  /\ UNCHANGED <<swing_vars, batch_vars, log_vars, variant, src, pc, exit_status, trades, sell_markers,
                 unrealized_pnl, consolidated_file>>

\* mutant: the sell branch leaves in_market set
Sell_KeepsPosition ==
  /\ InLoop /\ SellFires
  /\ ~ZeroDivides
  /\ trades' = Append(trades, CompletedRecord(variant, entry_date, Row(i).Date,
                                               buy_price, Close(i), current_holding))
  /\ sell_markers' = Append(sell_markers, <<Row(i).Date, Close(i)>>)
  /\ buy_price' = 0
  /\ current_holding' = NoShares
  /\ i' = i + 1
  /\ UNCHANGED <<swing_vars, batch_vars, log_vars, variant, src, pc, exit_status, in_market, entry_date, entry_i,
                 buy_markers, unrealized_pnl, consolidated_file>>

\* mutant: the proceeds of a sale are reinvested at once, at the same close
Sell_Reinvests ==
  /\ InLoop /\ SellFires
  /\ ~ZeroDivides
  /\ trades' = Append(trades, CompletedRecord(variant, entry_date, Row(i).Date,
                                               buy_price, Close(i), current_holding))
  /\ sell_markers' = Append(sell_markers, <<Row(i).Date, Close(i)>>)
  /\ buy_markers' = Append(buy_markers, <<Row(i).Date, Close(i)>>)
  /\ buy_price' = Close(i)
  /\ current_holding' = Shares(investment, Close(i))
  /\ entry_date' = Row(i).Date
  /\ entry_i' = i
  /\ i' = i + 1
  /\ UNCHANGED <<swing_vars, batch_vars, log_vars, variant, src, pc, exit_status, in_market, unrealized_pnl,
                 consolidated_file>>

\* mutant: the sell branch without "buy_price, current_holding = 0, 0"
Sell_NoReset ==
  /\ InLoop /\ SellFires
  /\ ~ZeroDivides
  /\ trades' = Append(trades, CompletedRecord(variant, entry_date, Row(i).Date,
                                               buy_price, Close(i), current_holding))
  /\ sell_markers' = Append(sell_markers, <<Row(i).Date, Close(i)>>)
  /\ in_market' = FALSE
  /\ i' = i + 1
  /\ UNCHANGED <<swing_vars, batch_vars, log_vars, variant, src, pc, exit_status,
                 buy_price, current_holding, entry_date, entry_i, buy_markers,
                 unrealized_pnl, consolidated_file>>

Sell ==
  /\ InLoop /\ SellFires
  /\ ~ZeroDivides
  /\ trades' = Append(trades, CompletedRecord(variant, entry_date, Row(i).Date,
                                               buy_price, Close(i), current_holding))
  /\ sell_markers' = Append(sell_markers, <<Row(i).Date, Close(i)>>)
  /\ in_market' = FALSE
  /\ buy_price' = 0
  /\ current_holding' = NoShares
  /\ i' = i + 1
  /\ UNCHANGED <<swing_vars, batch_vars, log_vars, variant, src, pc, exit_status, entry_date, entry_i, buy_markers,
                 unrealized_pnl, consolidated_file>>

\* download_and_plot.py divides by years_fraction = 0: ZeroDivisionError ends the run
ZeroDivision ==
  /\ InLoop /\ SellFires
  /\ ZeroDivides
  /\ pc' = "crashed"
  /\ exit_status' = 1
  /\ UNCHANGED <<swing_vars, batch_vars, log_vars, variant, src, i, walk_vars, unrealized_pnl, consolidated_file>>

NoSignal ==
  /\ InLoop /\ ~BuyFires /\ ~SellFires
  /\ i' = i + 1
  /\ UNCHANGED <<swing_vars, batch_vars, log_vars, variant, src, pc, exit_status, walk_vars, unrealized_pnl,
                 consolidated_file>>

(* ------------------------------------------------------------------ *)
(* End of series: "if in_market" after the loop                        *)
(* ------------------------------------------------------------------ *)
\* mutant: the Holding record carries the gain of the zero-duration branch
HoldingRecord_ZeroGain(v, entry, last_date, bp, current_price, holding) ==
  LET duration_in_days == last_date - entry
  IN IF v = "backtester"
     THEN [Entry_Date |-> DateCell(entry), Exit_Date |-> Text("Still Holding"),
           Holding_Period_Months |-> Num(Round2(duration_in_days, DaysPerMonth)),
           Buy_Price |-> Num(100 * bp), Sell_Price |-> Num(100 * current_price),
           Profit_Loss |-> Num(Round2(PnLNum(holding, current_price), holding.d)),
           Effective_Annual_Gain |-> Num(0),
           Status |-> "Holding"]
     ELSE [Entry_Date |-> DateCell(entry), Exit_Date |-> Text("Still Holding"),
           Holding_Period_Y |-> Text(""), Holding_Period_M |-> Text(""),
           Buy_Price |-> Num(100 * bp), Sell_Price |-> Num(100 * current_price),
           Profit_Loss |-> Num(Round2(PnLNum(holding, current_price), holding.d)),
           Effective_Annual_Gain |-> Num(0),
           Status |-> "Holding"]

HoldingRecord(v, entry, last_date, bp, current_price, holding) ==
  LET duration_in_days == last_date - entry
  IN IF v = "backtester"
     THEN [Entry_Date |-> DateCell(entry), Exit_Date |-> Text("Still Holding"),
           Holding_Period_Months |-> Num(Round2(duration_in_days, DaysPerMonth)),
           Buy_Price |-> Num(100 * bp), Sell_Price |-> Num(100 * current_price),
           Profit_Loss |-> Num(Round2(PnLNum(holding, current_price), holding.d)),
           Effective_Annual_Gain |-> Text(""),
           Status |-> "Holding"]
     ELSE [Entry_Date |-> DateCell(entry), Exit_Date |-> Text("Still Holding"),
           Holding_Period_Y |-> Text(""), Holding_Period_M |-> Text(""),
           Buy_Price |-> Num(100 * bp), Sell_Price |-> Num(100 * current_price),
           Profit_Loss |-> Num(Round2(PnLNum(holding, current_price), holding.d)),
           Effective_Annual_Gain |-> Text(""),
           Status |-> "Holding"]

\* mutant: the Holding record replaces the ledger's last record
EndHolding_Overwrites ==
  /\ pc = "walk" /\ i >= Len(data)
  /\ in_market
  /\ unrealized_pnl' = PnLNum(current_holding, data[Len(data)].Close)
  /\ trades' = IF trades = <<>> THEN <<>> ELSE SubSeq(trades, 1, Len(trades) - 1)
  /\ pc' = "report"
  /\ UNCHANGED <<swing_vars, batch_vars, log_vars, variant, src, exit_status, i, in_market, buy_price, current_holding,
                 entry_date, entry_i, buy_markers, sell_markers, consolidated_file>>

EndHolding ==
  /\ pc = "walk" /\ i >= Len(data)
  /\ in_market
  /\ unrealized_pnl' = PnLNum(current_holding, data[Len(data)].Close)
  /\ trades' = Append(trades, HoldingRecord(variant, entry_date, data[Len(data)].Date,
                                             buy_price, data[Len(data)].Close,
                                             current_holding))
  /\ pc' = "report"
  /\ UNCHANGED <<swing_vars, batch_vars, log_vars, variant, src, exit_status, i, in_market, buy_price, current_holding,
                 entry_date, entry_i, buy_markers, sell_markers, consolidated_file>>

EndFlat ==
  /\ pc = "walk" /\ i >= Len(data)
  /\ ~in_market
  /\ pc' = "report"
  /\ UNCHANGED <<swing_vars, batch_vars, log_vars, variant, src, exit_status, i, walk_vars, unrealized_pnl,
                 consolidated_file>>

(* ------------------------------------------------------------------ *)
(* Report: the row appended to consolidated_trade_summary.csv          *)
(* ------------------------------------------------------------------ *)
RECURSIVE SumProfitLoss(_)
\* trades_df['Profit/Loss'].sum()
SumProfitLoss(ts) ==
  IF ts = <<>> THEN 0
  ELSE SumProfitLoss(SubSeq(ts, 1, Len(ts) - 1)) + ts[Len(ts)].Profit_Loss.num

\* trades_df['Profit/Loss'].sum() if not trades_df.empty else 0
total_profit(ts) == IF ts # <<>> THEN SumProfitLoss(ts) ELSE 0

\* mutant: every ledger row is counted, and the open position once more
number_of_entries_AllRows(ts, holding_now) ==
  Len(ts) + (IF holding_now THEN 1 ELSE 0)

\* mutant: the position still open is not counted as an entry
number_of_entries_Completed(ts, holding_now) ==
  IF ts # <<>>
  THEN Cardinality({k \in 1 .. Len(ts) : ts[k].Status = "Completed"})
  ELSE 0

\* trades_df[trades_df['Status'] == 'Completed'].shape[0], plus one when in_market
number_of_entries(ts, holding_now) ==
  (IF ts # <<>>
   THEN Cardinality({k \in 1 .. Len(ts) : ts[k].Status = "Completed"})
   ELSE 0)
  + (IF holding_now THEN 1 ELSE 0)

consolidated_data(v, stock, ts, holding_now, upnl, holding) ==
  IF v = "backtester"
  THEN [Stock |-> stock,
        Total_Profit_Loss |-> Num(total_profit(ts)),
        Unrealized_PL |-> IF holding_now THEN Num(Round2(upnl, holding.d)) ELSE Text(""),
        Number_of_Times_Entered_Market |-> number_of_entries(ts, holding_now)]
  ELSE [Stock |-> stock,
        Total_Profit_Loss |-> Num(total_profit(ts)),
        Unrealized_PL |-> IF holding_now THEN Num(Round2(upnl, holding.d)) ELSE Text("")]

Header(v) ==
  IF v = "backtester"
  THEN [header |-> <<"Stock", "Analysis Period", "Total Profit/Loss", "Unrealized P/L",
                     "Number of Times Entered Market">>]
  ELSE [header |-> <<"Stock", "Analysis Period", "Total Profit/Loss", "Unrealized P/L">>]

\* mutant: the file is a table keyed by Stock; a row of the same stock is replaced
AppendRow_Keyed(v, file, row) ==
  IF file = <<>> THEN <<Header(v), row>>
  ELSE Append(SelectSeq(file, LAMBDA r : "header" \in DOMAIN r \/ r.Stock # row.Stock),
              row)

\* mutant: every run writes the header before its row
AppendRow_AlwaysHeader(v, file, row) == file \o <<Header(v), row>>

\* to_csv(consolidated_file) when the file is absent, to_csv(mode='a', header=False) else
AppendRow(v, file, row) == IF file = <<>> THEN <<Header(v), row>> ELSE Append(file, row)

WritesConsolidated(v) == v # "plot"

\* <stock>_trade_summary.csv: always written by the backtester (headers only when
\* there is no trade), by the other two scripts when there is a trade
WritesSummary(v, ts) == v = "backtester" \/ ts # <<>>
\* trade_logs.csv: the backtester's trades with a leading Stock column
WritesLogs(v, ts) == v = "backtester" /\ ts # <<>>
LogHeader == [header |-> <<"Stock", "Entry Date", "Exit Date", "Holding Period (Months)",
                           "Buy Price", "Sell Price", "Profit/Loss",
                           "Effective Annual Gain (%)", "Status">>]
LogRows(stock, ts) == [k \in 1 .. Len(ts) |-> [Stock |-> stock, Trade |-> ts[k]]] \o <<>>
AppendLogs(file, rows) == IF file = <<>> THEN <<LogHeader>> \o rows ELSE file \o rows

Report ==
  /\ pc = "report"
  /\ summary_files' =
       IF WritesSummary(variant, trades)
       THEN (stock_name :> trades) @@ summary_files
       ELSE summary_files
  /\ trade_logs' =
       IF WritesLogs(variant, trades)
       THEN AppendLogs(trade_logs, LogRows(stock_name, trades))
       ELSE trade_logs
  /\ consolidated_file' =
       IF WritesConsolidated(variant)
       THEN AppendRow(variant, consolidated_file,
                      consolidated_data(variant, stock_name, trades, in_market,
                                        unrealized_pnl, current_holding))
       ELSE consolidated_file
  /\ pc' = "done"
  /\ exit_status' = 0
  /\ UNCHANGED <<swing_vars, batch_vars, variant, src, i, walk_vars, unrealized_pnl>>

Next ==
  \/ NoData
  \/ Download
  \/ Buy
  \/ Sell
  \/ ZeroDivision
  \/ NoSignal
  \/ EndHolding
  \/ EndFlat
  \/ Report

Spec == Init /\ [][Next]_vars

(* ------------------------------------------------------------------ *)
(* The batch driver: "for idx, stock in enumerate(nifty50_stocks)"     *)
(* runs the backtester once per ticker with subprocess.run, which      *)
(* returns when the child has exited.  The files written by one run    *)
(* are found by the next.                                              *)
(* ------------------------------------------------------------------ *)
Stocks == {"ADANIENT", "ADANIPORTS"}
\* nothing downloaded yet
NoResponse == [lead |-> Plateau, prices |-> <<>>, nan |-> 0, dup |-> FALSE]
\* responses of the runs of a batch: none, a short one, one that ends with a
\* position open, one with a completed trade
BatchDescs ==
  {NoResponse,
   [lead |-> TinyLead, prices |-> <<1>>, nan |-> 0, dup |-> FALSE],
   [lead |-> Plateau, prices |-> <<2, 1>>, nan |-> 0, dup |-> FALSE],
   [lead |-> Plateau, prices |-> <<2, 1, 3>>, nan |-> 0, dup |-> FALSE]}
\* the scripts that are run once per stock name given on the command line
BatchVariants == {"backtester", "plot2"}

BatchInit ==
  /\ variant \in BatchVariants
  /\ src = NoResponse
  /\ pc = "idle"
  /\ exit_status = 0 - 1
  /\ i = 0
  /\ in_market = FALSE
  /\ buy_price = 0
  /\ current_holding = NoShares
  /\ entry_date = None
  /\ entry_i = None
  /\ trades = <<>>
  /\ buy_markers = <<>>
  /\ sell_markers = <<>>
  /\ unrealized_pnl = 0
  /\ consolidated_file = <<>>
  /\ trade_logs = <<>>
  /\ summary_files = <<>>
  /\ driver = "loop"
  /\ stocks \in [1 .. BatchLen -> Stocks]
  /\ ticker = 0
  /\ children = {}
  /\ workers = <<>>
  /\ SwingIdle

\* mutant: the ledger of the run before is still there when main() starts
StartProcess_KeepsLedger(d) ==
  /\ src' = d
  /\ pc' = "download"
  /\ exit_status' = 0 - 1
  /\ i' = 0
  /\ in_market' = FALSE
  /\ buy_price' = 0
  /\ current_holding' = NoShares
  /\ entry_date' = None
  /\ entry_i' = None
  /\ trades' = trades
  /\ buy_markers' = <<>>
  /\ sell_markers' = <<>>
  /\ unrealized_pnl' = 0

\* mutant: the position of the run before is still there when main() starts
StartProcess_KeepsPosition(d) ==
  /\ src' = d
  /\ pc' = "download"
  /\ exit_status' = 0 - 1
  /\ i' = 0
  /\ UNCHANGED <<in_market, buy_price, current_holding, entry_date, entry_i>>
  /\ trades' = <<>>
  /\ buy_markers' = <<>>
  /\ sell_markers' = <<>>
  /\ unrealized_pnl' = 0

\* a fresh process: the state main() starts from
StartProcess(d) ==
  /\ src' = d
  /\ pc' = "download"
  /\ exit_status' = 0 - 1
  /\ i' = 0
  /\ in_market' = FALSE
  /\ buy_price' = 0
  /\ current_holding' = NoShares
  /\ entry_date' = None
  /\ entry_i' = None
  /\ trades' = <<>>
  /\ buy_markers' = <<>>
  /\ sell_markers' = <<>>
  /\ unrealized_pnl' = 0

\* mutant: the child is started and the loop goes on without waiting for it
Launch_NoWait ==
  /\ ticker < Len(stocks)
  /\ ticker' = ticker + 1
  /\ children' = children \cup {ticker + 1}
  /\ driver' = "loop"
  /\ \E d \in BatchDescs : StartProcess(d)
  /\ UNCHANGED <<swing_vars, variant, stocks, workers, consolidated_file, log_vars>>

\* subprocess.run([...]) of the next iteration starts the child
Launch ==
  /\ driver = "loop" /\ ticker < Len(stocks)
  /\ ticker' = ticker + 1
  /\ children' = children \cup {ticker + 1}
  /\ driver' = "waiting"
  /\ \E d \in BatchDescs : StartProcess(d)
  /\ UNCHANGED <<swing_vars, variant, stocks, workers, consolidated_file, log_vars>>

\* mutant: an error of the child is not caught and ends the driver
Reap_Aborts ==
  /\ driver = "waiting" /\ pc \in {"done", "exit", "crashed"}
  /\ children' = children \ {ticker}
  /\ driver' = IF exit_status = 0 THEN "loop" ELSE "aborted"
  /\ UNCHANGED <<swing_vars, variant, src, pc, exit_status, i, walk_vars,
                 unrealized_pnl, consolidated_file, log_vars, stocks, ticker, workers>>

\* subprocess.run returns (or raises CalledProcessError): the child has exited
Reap ==
  /\ driver = "waiting" /\ pc \in {"done", "exit", "crashed"}
  /\ children' = children \ {ticker}
  /\ driver' = "loop"
  /\ UNCHANGED <<swing_vars, variant, src, pc, exit_status, i, walk_vars,
                 unrealized_pnl, consolidated_file, log_vars, stocks, ticker, workers>>

BatchNext ==
  \/ Launch
  \/ Reap
  \/ NoData
  \/ Download
  \/ Buy
  \/ Sell
  \/ NoSignal
  \/ EndHolding
  \/ EndFlat
  \/ Report

BatchSpec == BatchInit /\ [][BatchNext]_vars

\* the driver and its child are sequential programs that keep running: a step
\* that can be taken is taken
BatchFairSpec == BatchSpec /\ WF_vars(BatchNext)

(* ------------------------------------------------------------------ *)
(* A script started again by hand for the same stock, the provider     *)
(* returning the same response; the files of the earlier runs are on   *)
(* disk.                                                               *)
(* ------------------------------------------------------------------ *)
RerunDescs == BatchDescs \cup TwoSaleDescs \cup DupDescs

RerunInit == Init /\ src \in RerunDescs

Rerun ==
  /\ pc \in {"done", "exit", "crashed"}
  /\ ticker < BatchLen
  /\ ticker' = ticker + 1
  /\ stocks' = Append(stocks, stock_name)
  /\ StartProcess(src)
  /\ UNCHANGED <<swing_vars, variant, driver, children, workers, consolidated_file, log_vars>>

RerunNext ==
  \/ Next
  \/ Rerun

RerunSpec == RerunInit /\ [][RerunNext]_vars

(* ------------------------------------------------------------------ *)
(* The swing-trade scripts.  analyze_stock of "yf test.py" (variant    *)
(* "yf_test") and of backtest_1_month.py ("one_month") holds position, *)
(* buy_price and quantity; TradeAnalyzer.calculate_trades ("analyzer") *)
(* holds holdings and its running sums.  All three keep a list trades. *)
(* ------------------------------------------------------------------ *)
StockVariants == {"yf_test", "one_month"}
SwingVariants == StockVariants \cup {"analyzer"}
\* 1000 * (1 + target_profit_percent / 100), target_profit_percent = 2.5
RedPerMille == 1025

\* the rows the loop of the script goes through
SwingRows == IF variant = "one_month" THEN SwingFrames[df].clean ELSE SwingFrames[df].full
SRow(k) == SwingRows[k + 1]

SwingInit ==
  /\ variant \in SwingVariants
  /\ df \in SwingDescs
  /\ variant \in StockVariants => df.gap = 0 /\ ~df.desc
  /\ pc = "load"
  /\ i = 0
  /\ trades = <<>>
  /\ buy_price = 0
  /\ position = FALSE
  /\ quantity = 0
  /\ holdings = 0
  /\ current_buy_value = 0
  /\ running_investment = 0
  /\ running_returns = 0
  /\ current_holdings = <<>>
  /\ src = NoResponse
  /\ exit_status = 0 - 1
  /\ in_market = FALSE
  /\ current_holding = NoShares
  /\ entry_date = None
  /\ entry_i = None
  /\ buy_markers = <<>>
  /\ sell_markers = <<>>
  /\ unrealized_pnl = 0
  /\ consolidated_file = <<>>
  /\ trade_logs = <<>>
  /\ summary_files = <<>>
  /\ driver = "none"
  /\ stocks = <<default_stock>>
  /\ ticker = 1
  /\ children = {}
  /\ workers = <<>>

\* what a swing-trade script never touches
dma_vars == <<variant, src, exit_status, in_market, current_holding, entry_date,
              entry_i, buy_markers, sell_markers, unrealized_pnl, consolidated_file,
              log_vars, batch_vars, df>>
stock_vars == <<position, quantity>>
analyzer_vars == <<holdings, current_buy_value, running_investment, running_returns,
                   current_holdings>>

\* "if df is None or df.empty: return" of analyze_stock
ReturnsOnEmpty(v) == v \in StockVariants

\* the data is fetched or loaded and the indicator columns are computed
Indicators ==
  /\ pc = "load" /\ variant \in SwingVariants
  /\ pc' = IF ReturnsOnEmpty(variant) /\ SwingLen(df) = 0 THEN "returned" ELSE "scan"
  /\ UNCHANGED <<dma_vars, stock_vars, analyzer_vars, i, trades, buy_price>>

InSwingLoop(vs) == pc = "scan" /\ variant \in vs /\ i < Len(SwingRows)

\* float arithmetic with NaN: a NaN operand gives NaN
times(c, x) == IF x = NaN THEN NaN ELSE c * x
plus(a, b) == IF a = NaN \/ b = NaN THEN NaN ELSE a + b

\* Buy_Threshold = (Monthly_Avg + Monthly_Low) / 2, as 2 * Scale times its value
Buy_Threshold(r) == plus(r.SMA_20, times(Scale, r.Monthly_Low))
\* row['Close'] < row['Buy_Threshold']
BelowBuyThreshold(r) == lt(times(2 * Scale, r.Close), Buy_Threshold(r))
\* row['Close'] > row['Monthly_Avg']
AboveMonthlyAvg(r) == lt(r.SMA_20, times(Scale, r.Close))

\* mutant: the buy branch is not guarded by "if not position"
StockBuy_Pyramids ==
  /\ InSwingLoop(StockVariants)
  /\ BelowBuyThreshold(SRow(i))
  /\ buy_price' = SRow(i).Close
  /\ quantity' = stock_budget \div SRow(i).Close
  /\ position' = TRUE
  /\ trades' = Append(trades, [Date |-> SRow(i).Date, Action |-> "Buy",
                               Price |-> SRow(i).Close,
                               Quantity |-> stock_budget \div SRow(i).Close])
  /\ i' = i + 1
  /\ UNCHANGED <<dma_vars, analyzer_vars, pc>>

StockBuy ==
  /\ InSwingLoop(StockVariants)
  /\ ~position /\ BelowBuyThreshold(SRow(i))
  /\ buy_price' = SRow(i).Close
  /\ quantity' = stock_budget \div SRow(i).Close
  /\ position' = TRUE
  /\ trades' = Append(trades, [Date |-> SRow(i).Date, Action |-> "Buy",
                               Price |-> SRow(i).Close,
                               Quantity |-> stock_budget \div SRow(i).Close])
  /\ i' = i + 1
  /\ UNCHANGED <<dma_vars, analyzer_vars, pc>>

StockSell ==
  /\ InSwingLoop(StockVariants)
  /\ position /\ AboveMonthlyAvg(SRow(i))
  /\ position' = FALSE
  /\ trades' = Append(trades, [Date |-> SRow(i).Date, Action |-> "Sell",
                               Price |-> SRow(i).Close, Quantity |-> quantity,
                               Profit_Loss |-> (SRow(i).Close - buy_price) * quantity])
  /\ i' = i + 1
  /\ UNCHANGED <<dma_vars, analyzer_vars, pc, buy_price, quantity>>

StockSkip ==
  /\ InSwingLoop(StockVariants)
  /\ ~(~position /\ BelowBuyThreshold(SRow(i)))
  /\ ~(position /\ AboveMonthlyAvg(SRow(i)))
  /\ i' = i + 1
  /\ UNCHANGED <<dma_vars, stock_vars, analyzer_vars, pc, trades, buy_price>>

\* backtest_1_month.py only: "Close any open position" after the loop
ClosesOpenPosition(v) == v = "one_month"

CloseOpenPosition ==
  /\ pc = "scan" /\ variant \in StockVariants /\ i >= Len(SwingRows)
  /\ ClosesOpenPosition(variant) /\ position
  /\ trades' = Append(trades,
       [Date |-> SwingRows[Len(SwingRows)].Date, Action |-> "Sell",
        Price |-> SwingRows[Len(SwingRows)].Close, Quantity |-> quantity,
        Profit_Loss |-> (SwingRows[Len(SwingRows)].Close - buy_price) * quantity])
  /\ pc' = "returned"
  /\ UNCHANGED <<dma_vars, stock_vars, analyzer_vars, i, buy_price>>

StockReturn ==
  /\ pc = "scan" /\ variant \in StockVariants /\ i >= Len(SwingRows)
  /\ ~(ClosesOpenPosition(variant) /\ position)
  /\ pc' = "returned"
  /\ UNCHANGED <<dma_vars, stock_vars, analyzer_vars, i, trades, buy_price>>

\* Green_Line = (SMA_20 + Low_20) / 2, as 2 * Scale times its value
Green_Line(r) == plus(r.SMA_20, times(Scale, r.Low_20))
\* Red_Line = SMA_20 * (1 + target_profit_percent / 100), as 1000 * Scale times its value
Red_Line(r) == times(RedPerMille, r.SMA_20)
\* mutant: the buy comparison is turned round
Buy_Signal_Above(r) == lt(Green_Line(r), times(2 * Scale, r.Close))

\* df['Close Price'] < df['Green_Line']
Buy_Signal(r) == lt(times(2 * Scale, r.Close), Green_Line(r))
\* df['Close Price'] > df['Red_Line']
Sell_Signal(r) == lt(Red_Line(r), times(1000 * Scale, r.Close))

\* mutant: the BUY record carries the Running_PnL of before the purchase
AnalyzerBuy_StalePnL ==
  /\ InSwingLoop({"analyzer"})
  /\ Buy_Signal(SRow(i))
  /\ LET shares_to_buy == analyzer_budget \div SRow(i).Close
         trade_value == shares_to_buy * SRow(i).Close
     IN /\ holdings' = holdings + shares_to_buy
        /\ current_buy_value' = current_buy_value + trade_value
        /\ running_investment' = running_investment + trade_value
        /\ trades' = Append(trades,
             [Date |-> SRow(i).Date, Action |-> "BUY", Shares |-> shares_to_buy,
              Price |-> SRow(i).Close, Value |-> trade_value,
              Holdings |-> holdings + shares_to_buy,
              Running_PnL |-> running_returns - running_investment])
        /\ current_holdings' = Append(current_holdings, holdings + shares_to_buy)
  /\ i' = i + 1
  /\ UNCHANGED <<dma_vars, stock_vars, pc, buy_price, running_returns>>

AnalyzerBuy ==
  /\ InSwingLoop({"analyzer"})
  /\ Buy_Signal(SRow(i))
  /\ LET shares_to_buy == analyzer_budget \div SRow(i).Close
         trade_value == shares_to_buy * SRow(i).Close
     IN /\ holdings' = holdings + shares_to_buy
        /\ current_buy_value' = current_buy_value + trade_value
        /\ running_investment' = running_investment + trade_value
        /\ trades' = Append(trades,
             [Date |-> SRow(i).Date, Action |-> "BUY", Shares |-> shares_to_buy,
              Price |-> SRow(i).Close, Value |-> trade_value,
              Holdings |-> holdings + shares_to_buy,
              Running_PnL |-> running_returns - (running_investment + trade_value)])
        /\ current_holdings' = Append(current_holdings, holdings + shares_to_buy)
  /\ i' = i + 1
  /\ UNCHANGED <<dma_vars, stock_vars, pc, buy_price, running_returns>>

\* mutant: the sell branch does not test holdings > 0
AnalyzerSell_NoHoldingsCheck ==
  /\ InSwingLoop({"analyzer"})
  /\ ~Buy_Signal(SRow(i))
  /\ Sell_Signal(SRow(i))
  /\ LET sale_value == holdings * SRow(i).Close
     IN /\ running_returns' = running_returns + sale_value
        /\ trades' = Append(trades,
             [Date |-> SRow(i).Date, Action |-> "SELL", Shares |-> holdings,
              Price |-> SRow(i).Close, Value |-> sale_value, Holdings |-> 0,
              Running_PnL |-> (running_returns + sale_value) - running_investment])
  /\ holdings' = 0
  /\ current_buy_value' = 0
  /\ current_holdings' = Append(current_holdings, 0)
  /\ i' = i + 1
  /\ UNCHANGED <<dma_vars, stock_vars, pc, buy_price, running_investment>>

AnalyzerSell ==
  /\ InSwingLoop({"analyzer"})
  /\ ~Buy_Signal(SRow(i))
  /\ Sell_Signal(SRow(i)) /\ holdings > 0
  /\ LET sale_value == holdings * SRow(i).Close
     IN /\ running_returns' = running_returns + sale_value
        /\ trades' = Append(trades,
             [Date |-> SRow(i).Date, Action |-> "SELL", Shares |-> holdings,
              Price |-> SRow(i).Close, Value |-> sale_value, Holdings |-> 0,
              Running_PnL |-> (running_returns + sale_value) - running_investment])
  /\ holdings' = 0
  /\ current_buy_value' = 0
  /\ current_holdings' = Append(current_holdings, 0)
  /\ i' = i + 1
  /\ UNCHANGED <<dma_vars, stock_vars, pc, buy_price, running_investment>>

AnalyzerSkip ==
  /\ InSwingLoop({"analyzer"})
  /\ ~Buy_Signal(SRow(i))
  /\ ~(Sell_Signal(SRow(i)) /\ holdings > 0)
  /\ current_holdings' = Append(current_holdings, holdings)
  /\ i' = i + 1
  /\ UNCHANGED <<dma_vars, stock_vars, pc, trades, buy_price, holdings,
                 current_buy_value, running_investment, running_returns>>

AnalyzerReturn ==
  /\ pc = "scan" /\ variant = "analyzer" /\ i >= Len(SwingRows)
  /\ pc' = "returned"
  /\ UNCHANGED <<dma_vars, stock_vars, analyzer_vars, i, trades, buy_price>>

SwingNext ==
  \/ Indicators
  \/ StockBuy
  \/ StockSell
  \/ StockSkip
  \/ CloseOpenPosition
  \/ StockReturn
  \/ AnalyzerBuy
  \/ AnalyzerSell
  \/ AnalyzerSkip
  \/ AnalyzerReturn

SwingSpec == SwingInit /\ [][SwingNext]_vars

\* one run of any script of the repository
RepoInit == Init \/ SwingInit
RepoNext == Next \/ SwingNext
RepoSpec == RepoInit /\ [][RepoNext]_vars

(* ------------------------------------------------------------------ *)
(* Properties                                                          *)
(* ------------------------------------------------------------------ *)
Buys == Len(buy_markers)
Sells == Len(sell_markers)
\* the stacked orderings read off the frame's columns at row k
BuyChainAt(k) ==
  /\ Row(k).DMA_200 # NaN
  /\ Close(k) * Scale < Row(k).DMA_20
  /\ Row(k).DMA_20 < Row(k).DMA_50
  /\ Row(k).DMA_50 < Row(k).DMA_100
  /\ Row(k).DMA_100 < Row(k).DMA_200
SellChainAt(k) ==
  /\ Row(k).DMA_200 # NaN
  /\ Row(k).DMA_200 < Row(k).DMA_100
  /\ Row(k).DMA_100 < Row(k).DMA_50
  /\ Row(k).DMA_50 < Row(k).DMA_20
  /\ Row(k).DMA_20 < Close(k) * Scale
HoldingRows == {k \in 1 .. Len(trades) : trades[k].Status = "Holding"}
CompletedRows == {k \in 1 .. Len(trades) : trades[k].Status = "Completed"}

\* C1: at most one position is open at any time.  A buy fires only while
\* in_market is false and a sell only while it is true; in every reachable
\* state buys - sells is 0 or 1, and is 1 exactly when in_market is true.
C1_OnePosition ==
  /\ [](Buys - Sells \in {0, 1} /\ (Buys - Sells = 1 <=> in_market))
  /\ [][(Buys' # Buys => ~in_market) /\ (Sells' # Sells => in_market)]_vars
C1_Witness == Buys = 2 /\ Sells = 1 /\ in_market

\* C2: no-loss sale.  Every Completed record has a sell price strictly above
\* the buy price of the position it closes, and no sell fires at a row whose
\* close is at or below the entry price, even when the sell chain holds there.
C2_NoLossSale ==
  /\ [](/\ \A k \in CompletedRows : trades[k].Sell_Price.num > trades[k].Buy_Price.num
        /\ \A k \in 1 .. Sells : sell_markers[k][2] > buy_markers[k][2])
  /\ [][Sells' # Sells => Close(i) > buy_price]_vars
\* the walk has passed a row where the sell chain held at a close not above
\* the entry price, and the position is still open
C2_Witness ==
  /\ pc = "walk" /\ in_market /\ i > entry_i + 1
  /\ SellChainAt(i - 1) /\ Close(i - 1) <= buy_price

\* C3: the buy guard of the backtester is exact.  A buy fires at row i iff the
\* state is flat, i > 199 and Close < DMA_20 < DMA_50 < DMA_100 < DMA_200 there,
\* all strict; it sets buy_price = Close[i], quantity = investment / Close[i],
\* entry_date = date[i] and the state to long.
C3_BuyGuardExact ==
  [][variant # "plot" =>
       /\ (Buys' # Buys) <=>
            (pc = "walk" /\ i < Len(data) /\ ~in_market /\ i > WarmUp /\ BuyChainAt(i))
       /\ (Buys' # Buys) =>
            /\ buy_price' = Close(i)
            /\ current_holding'.n * Close(i) = investment * current_holding'.d
            /\ entry_date' = Row(i).Date
            /\ in_market']_vars
C3_Witness ==
  /\ variant = "backtester" /\ pc = "walk" /\ in_market /\ i = entry_i + 1
  /\ buy_price = Close(entry_i)

\* C4: the sell guard of the backtester is exact.  A sell fires at row i iff the
\* state is long, i is after the entry index, DMA_200 < DMA_100 < DMA_50 < DMA_20
\* < Close there (all strict) and Close > buy_price; it appends exactly one
\* Completed record and the state becomes flat.
C4_SellGuardExact ==
  [][variant # "plot" =>
       /\ (Sells' # Sells) <=>
            (pc = "walk" /\ i < Len(data) /\ in_market /\ i > entry_i
             /\ SellChainAt(i) /\ Close(i) > buy_price)
       /\ (Sells' # Sells) =>
            /\ Len(trades') = Len(trades) + 1
            /\ SubSeq(trades', 1, Len(trades)) = trades
            /\ trades'[Len(trades')].Status = "Completed"
            /\ ~in_market']_vars
C4_Witness ==
  /\ variant = "backtester" /\ Sells = 1 /\ ~in_market /\ Len(trades) = 1
  /\ trades[1].Status = "Completed"

\* C5: at most one transition per index.  No step of the walk carries both a
\* buy and a sell; every transition consumes its index, so a position opened
\* at i is not closed at i and one closed at i is not re-opened before i + 1.
C5_OneTransitionPerIndex ==
  [][/\ ~(Buys' # Buys /\ Sells' # Sells)
     /\ (Buys' # Buys \/ Sells' # Sells) => i' = i + 1
     /\ Sells' # Sells => entry_i < i
     /\ i' >= i]_vars
\* a position closed at the index right after its entry
C5_Witness == pc = "walk" /\ Sells >= 1 /\ ~in_market /\ i = entry_i + 2

\* C6: at the end of the series exactly one Holding record is appended iff the
\* state is long after the last index; it is the last record, its Exit Date is
\* 'Still Holding' and its annual gain is absent; no Holding record exists
\* otherwise, and the ledger never has more than one.
C6_EndOfSeries ==
  /\ Cardinality(HoldingRows) <= 1
  /\ pc \in {"download", "walk", "exit", "crashed"} => HoldingRows = {}
  /\ pc \in {"report", "done"} =>
       /\ in_market <=> HoldingRows # {}
       /\ in_market =>
            /\ HoldingRows = {Len(trades)}
            /\ trades[Len(trades)].Exit_Date = Text("Still Holding")
            /\ trades[Len(trades)].Effective_Annual_Gain = Text("")
C6_Witness ==
  /\ pc = "done" /\ in_market /\ Len(trades) = 2
  /\ trades[1].Status = "Completed" /\ trades[2].Status = "Holding"

RECURSIVE RealizedSum(_, _)
\* sum of Profit/Loss over the Completed records among the first n of ts
RealizedSum(ts, n) ==
  IF n = 0 THEN 0
  ELSE RealizedSum(ts, n - 1)
       + (IF ts[n].Status = "Completed" THEN ts[n].Profit_Loss.num ELSE 0)
LastRow == consolidated_file[Len(consolidated_file)]

\* C7: the Total Profit/Loss of the summary row is the sum of Profit/Loss over
\* the Completed records only; the Holding record's unrealized P/L is not part
\* of it.
C7_TotalIsRealized ==
  (pc = "done" /\ WritesConsolidated(variant)) =>
    LastRow.Total_Profit_Loss = Num(RealizedSum(trades, Len(trades)))

\* C8: a series with fewer rows than the longest window (200) fires no
\* transition, and its trade ledger is empty at the end of the run.
C8_ShortSeriesNoTrade ==
  Len(data) < W200 =>
    Buys = 0 /\ Sells = 0 /\ ~in_market /\ trades = <<>>
\* a finished run over a short series that ends below its first close
C8_Witness ==
  /\ pc = "done" /\ Len(data) > W20 /\ Len(data) < W200
  /\ data[Len(data)].Close < data[1].Close
  /\ trades = <<>>

\* C9 as claimed: a series shorter than the warm-up window, the empty series
\* included, is not an error; the run ends normally with a zero-trade row.
C9_ShortIsNoError ==
  (variant # "plot" /\ Len(data) < W200) =>
    /\ exit_status # 1
    /\ pc = "done" => Len(consolidated_file) = 2
ZeroTradeRow(row) ==
  /\ row.Total_Profit_Loss = Num(0)
  /\ row.Unrealized_PL = Text("")
  /\ variant = "backtester" => row.Number_of_Times_Entered_Market = 0
\* C9 as amended: a non-empty response shorter than the warm-up window is not
\* an error: the run never exits with an error and ends with status 0 and a
\* zero-trade summary row; an empty response ends the run with status 1 before
\* the walk, and no row is written.
C9_ShortNonEmptyIsNoError ==
  (variant # "plot" /\ Len(data) < W200) =>
    IF RawLen(src) = 0
    THEN pc \in {"download", "exit"} /\ consolidated_file = <<>>
         /\ (pc = "exit" => exit_status = 1)
    ELSE /\ pc \notin {"exit", "crashed"}
         /\ exit_status # 1
         /\ pc = "done" =>
              /\ exit_status = 0
              /\ Len(consolidated_file) = 2
              /\ ZeroTradeRow(LastRow)
C9_Witness ==
  /\ variant = "backtester" /\ pc = "done" /\ exit_status = 0
  /\ Len(data) > 0 /\ Len(data) < W20
  /\ ZeroTradeRow(LastRow)

\* C10: whenever a sell is recorded with duration_days = 0, the Completed
\* record's annualized gain is absent (not a number such as 0), no division by
\* zero is performed, and its profit_or_loss is recorded.
C10_ZeroDurationGainAbsent ==
  /\ pc # "crashed"
  /\ \A k \in CompletedRows :
       trades[k].Exit_Date = trades[k].Entry_Date =>
         /\ trades[k].Effective_Annual_Gain = Text("")
         /\ LET bought == Shares(investment, buy_markers[k][2])
            IN trades[k].Profit_Loss =
                 Num(Round2(PnLNum(bought, sell_markers[k][2]), bought.d))

\* C11: for every Completed trade the profit_or_loss computed as
\* quantity * sell_price - investment equals quantity * (sell_price - buy_price),
\* and quantity * buy_price equals the investment of 100000 while the position
\* is open.  The record holds that value rounded to two decimals.
C11_ProfitIdentity ==
  /\ [](in_market => current_holding.n * buy_price = investment * current_holding.d)
  /\ [][Sells' # Sells =>
          /\ PnLNum(current_holding, Close(i))
               = current_holding.n * (Close(i) - buy_price)
          /\ trades'[Len(trades')].Profit_Loss
               = Num(Round2(current_holding.n * (Close(i) - buy_price),
                            current_holding.d))]_vars
C11_Witness ==
  /\ pc = "walk" /\ ~in_market /\ CompletedRows # {}
  /\ trades[Len(trades)].Profit_Loss.num > 0

\* dates of the ledger, in ledger order; a Holding record has no exit date
EntryOf(k) == trades[k].Entry_Date.date
ExitOf(k) == trades[k].Exit_Date.date
Chronological ==
  /\ \A k \in CompletedRows : EntryOf(k) < ExitOf(k)
  /\ \A k \in CompletedRows :
       k < Len(trades) => ExitOf(k) < EntryOf(k + 1)
  /\ \A h \in HoldingRows : \A k \in CompletedRows :
       k < h /\ ExitOf(k) < EntryOf(h)

\* C12 as claimed: the ledger is chronological and trades do not overlap: each
\* Completed record has entry date < exit date, the exit date of record k is
\* before the entry date of record k+1, and the Holding record, if any, comes
\* last with an entry date after every Completed record's exit date.
C12_Chronological == Chronological
\* C12 as amended: the same, for a series whose timestamps strictly increase;
\* in general a Completed record has entry date <= exit date.
C12_ChronologicalStrictDates ==
  /\ ~src.dup => Chronological
  /\ \A k \in CompletedRows : EntryOf(k) <= ExitOf(k)
C12_Witness ==
  /\ ~src.dup /\ pc = "walk" /\ in_market /\ Len(trades) = 2
  /\ ExitOf(1) < EntryOf(2) /\ ExitOf(2) < entry_date

\* C13: the ledger is append-only.  A step appends exactly one record when a
\* sell fires or when the series ends with a position open, and leaves the
\* list as it is otherwise; the records already there stay as they are.
C13_AppendOnly ==
  [][IF Sells' # Sells \/ (pc = "walk" /\ pc' = "report" /\ in_market)
     THEN /\ Len(trades') = Len(trades) + 1
          /\ \A k \in 1 .. Len(trades) : trades'[k] = trades[k]
     ELSE trades' = trades]_vars
C13_Witness ==
  /\ pc = "report" /\ Len(trades) = 3
  /\ trades[1].Status = "Completed" /\ trades[2].Status = "Completed"
  /\ trades[3].Status = "Holding"

\* the data rows of a csv file, without its header line
DataRows(file) == SelectSeq(file, LAMBDA r : "header" \notin DOMAIN r)

\* C14: the consolidated summary is an append-only log.  The reporting step of
\* every run appends exactly one row, for the run's stock, also when the ledger
\* is empty and also when the stock already has a row; the rows already in the
\* file stay as they are, and no other step changes the file.
C14_ConsolidatedLog ==
  [][IF pc = "report" /\ pc' = "done"
     THEN /\ Len(DataRows(consolidated_file')) = Len(DataRows(consolidated_file)) + 1
          /\ \A k \in 1 .. Len(consolidated_file) :
               consolidated_file'[k] = consolidated_file[k]
          /\ consolidated_file'[Len(consolidated_file')].Stock = stock_name
     ELSE consolidated_file' = consolidated_file]_vars
\* the second run of a batch has reported an empty ledger for the stock of the first
C14_Witness ==
  /\ pc = "done" /\ ticker = 2 /\ trades = <<>>
  /\ Len(DataRows(consolidated_file)) = 2
  /\ consolidated_file[2].Stock = consolidated_file[3].Stock

\* C15: the backtester's summary row tells 'zero trades' from 'one position
\* opened and never closed', and the run ends without error in both: with an
\* empty ledger the row has entry count 0 and an empty Unrealized P/L; with a
\* single Holding record it has entry count 1 and an Unrealized P/L equal to
\* that record's Profit/Loss.
C15_ZeroVersusOpen ==
  (pc = "done" /\ variant = "backtester") =>
    /\ exit_status = 0
    /\ trades = <<>> =>
         /\ LastRow.Number_of_Times_Entered_Market = 0
         /\ LastRow.Unrealized_PL = Text("")
    /\ (Len(trades) = 1 /\ trades[1].Status = "Holding") =>
         /\ LastRow.Number_of_Times_Entered_Market = 1
         /\ LastRow.Unrealized_PL = trades[1].Profit_Loss
         /\ LastRow.Unrealized_PL # Text("")
C15_Witness ==
  /\ pc = "done" /\ variant = "backtester"
  /\ Len(trades) = 1 /\ trades[1].Status = "Holding"
  /\ LastRow.Number_of_Times_Entered_Market = 1
  /\ LastRow.Unrealized_PL.num < 0

\* C16: a batch run serializes its writers.  The driver starts the backtester
\* for the next ticker only after the one before has exited, so at most one
\* backtester process exists at any time and every line added to
\* consolidated_trade_summary.csv or trade_logs.csv is written by that one.
C16_BatchSerialized ==
  /\ [](Cardinality(children) <= 1 /\ (children # {} => children = {ticker}))
  /\ [][ticker' # ticker =>
          /\ children = {}
          /\ pc \in {"idle", "done", "exit", "crashed"}
          /\ ticker' = ticker + 1]_vars
  /\ [][(consolidated_file' # consolidated_file \/ trade_logs' # trade_logs) =>
          children = {ticker} /\ children' = children]_vars
\* the second backtester of a batch walks its rows; the first has left its lines
C16_Witness ==
  /\ driver = "waiting" /\ ticker = 2 /\ children = {2} /\ pc = "walk" /\ i > W200
  /\ variant = "backtester"
  /\ Len(DataRows(consolidated_file)) = 1 /\ Len(DataRows(trade_logs)) = 1

Windows == {W20, W50, W100, W200}
DMA_of(r, w) ==
  CASE w = W20 -> r.DMA_20
    [] w = W50 -> r.DMA_50
    [] w = W100 -> r.DMA_100
    [] w = W200 -> r.DMA_200
RECURSIVE CloseSum(_, _, _)
\* the closes of rows lo..hi added up
CloseSum(rows, lo, hi) ==
  IF lo > hi THEN 0 ELSE rows[lo].Close + CloseSum(rows, lo + 1, hi)
\* Scale times the mean of the w closes at indices k-w+1..k, from the mean one
\* row earlier: the close at k comes into the window and the one at k-w leaves
MeanAt(rows, k, w) ==
  IF k < w - 1 THEN NaN
  ELSE IF k = w - 1 THEN CloseSum(rows, 1, w) * (Scale \div w)
  ELSE DMA_of(rows[k], w) + (rows[k + 1].Close - rows[k + 1 - w].Close) * (Scale \div w)
\* the raw row behind index k of the cleaned frame
RawOf(d, k) == IF d.nan > 0 /\ k + 1 >= d.nan THEN k + 2 ELSE k + 1
\* the inputs equal to d up to the segment of index k: d cut after that
\* segment, and the cut followed by any other segment
Futures(d, k) ==
  LET j == SegOf(d, RawOf(d, k), 1)
  IN ({[d EXCEPT !.prices = SubSeq(d.prices, 1, j)]}
      \cup {[d EXCEPT !.prices = Append(SubSeq(d.prices, 1, j), l)] : l \in Levels})
     \cap Descs
SwingFutures(d, k) ==
  LET n == IF k + 1 > d.lead THEN k + 1 - d.lead ELSE 0
  IN ({[d EXCEPT !.tail = SubSeq(d.tail, 1, n)]}
      \cup {[d EXCEPT !.tail = Append(SubSeq(d.tail, 1, n), l)] : l \in 1 .. SwingLevels})
     \cap SwingDescs
\* m is the least of the values of field f over rows lo..hi
IsMin(m, rows, lo, hi, f) ==
  /\ \A n \in lo .. hi : m <= rows[n][f]
  /\ \E n \in lo .. hi : m = rows[n][f]
SwingCausal(F, r) ==
  LET k == r.Idx
      lo == k + 2 - SwingWindow
  IN /\ k < SwingWindow - 1 => r.SMA_20 = NaN /\ r.Monthly_Low = NaN /\ r.Low_20 = NaN
     /\ r.SMA_20 # NaN =>
          /\ k >= SwingWindow - 1
          /\ r.SMA_20 = CloseSum(F, lo, k + 1) * (Scale \div SwingWindow)
     /\ r.Monthly_Low # NaN =>
          k >= SwingWindow - 1 /\ IsMin(r.Monthly_Low, F, lo, k + 1, "Close")
     /\ r.Low_20 # NaN =>
          k >= SwingWindow - 1 /\ IsMin(r.Low_20, F, lo, k + 1, "Low")
     /\ (k >= SwingWindow - 1 /\ \A n \in lo .. k + 1 : F[n].Close # NaN) =>
          r.SMA_20 # NaN /\ r.Monthly_Low # NaN /\ r.Low_20 # NaN
     /\ \A d2 \in SwingFutures(df, k) : SwingFrames[d2].full[k + 1] = r

\* C17: the indicators are causal.  At every row the walk reads, the moving
\* average (and rolling minimum) over w rows is undefined before index w-1 and
\* is otherwise the mean (minimum) of exactly the w closes at i-w+1..i; the row
\* is the same in every input that agrees with this one up to index i.
C17_IndicatorsCausal ==
  /\ (variant \in Variants /\ InLoop) =>
       /\ \A w \in Windows : DMA_of(Row(i), w) = MeanAt(data, i, w)
       /\ \A d2 \in Futures(src, i) :
            Len(Frames[d2].rows) > i /\ Frames[d2].rows[i + 1] = Row(i)
  /\ (variant \in SwingVariants /\ pc = "scan" /\ i < Len(SwingRows)) =>
       SwingCausal(SwingFrames[df].full, SRow(i))
\* a row past the warm-up whose 20-row mean has just moved, in an input that
\* has a continuation other than its own
C17_Witness ==
  /\ variant \in Variants /\ InLoop /\ i > W200
  /\ Row(i).DMA_20 # Row(i - 1).DMA_20
  /\ Row(i).DMA_200 # NaN
  /\ \E d2 \in Futures(src, i) : Len(Frames[d2].rows) # Len(data)

\* C18: in every strategy variant a step that buys or sells happens at a row
\* where every indicator its condition compares is defined.
C18_NoTradeWithoutIndicators ==
  [][/\ (variant \in Variants /\ (Buys' # Buys \/ Sells' # Sells)) =>
          \A w \in Windows : DMA_of(Row(i), w) # NaN
     /\ (variant \in StockVariants /\ pc' = "scan" /\ trades' # trades) =>
          /\ SRow(i).SMA_20 # NaN
          /\ position' => SRow(i).Monthly_Low # NaN
     /\ (variant = "analyzer" /\ trades' # trades) =>
          /\ SRow(i).SMA_20 # NaN
          /\ holdings' > holdings => SRow(i).Low_20 # NaN]_vars
\* download_and_plot.py, whose loop guard is i > 0, has bought at the first
\* row with a 200-row mean and at none before
C18_Witness ==
  /\ variant = "plot" /\ pc = "done"
  /\ Buys = 1 /\ buy_markers[1][1] = W200 - 1
  /\ data[W200 - 1].DMA_200 = NaN /\ data[W200].DMA_200 # NaN

NaNDate == src.nan - 1
\* C19: a row whose close is NaN is dropped before the indicators are
\* computed: the walk never reads it, no record or marker carries its date,
\* and the run neither exits with an error nor crashes but walks every
\* remaining row.
C19_NaNRowSkipped ==
  /\ [](src.nan > 0 /\ variant \in Variants =>
          /\ pc \notin {"crashed", "exit"} /\ exit_status # 1
          /\ InLoop => Close(i) # NaN /\ Row(i).Date # NaNDate
          /\ pc \in {"report", "done"} => i = RawLen(src) - 1
          /\ \A k \in 1 .. Buys : buy_markers[k][1] # NaNDate
          /\ \A k \in 1 .. Sells : sell_markers[k][1] # NaNDate)
  /\ [][(src.nan > 0 /\ variant \in Variants /\ trades' # trades /\ pc = "walk") =>
          /\ trades'[Len(trades')].Entry_Date.date # NaNDate
          /\ trades'[Len(trades')].Exit_Date # DateCell(NaNDate)]_vars
\* a finished run over a response with a NaN close at row 200 that bought
\* after that row
C19_Witness ==
  /\ src.nan = Plateau + 1 /\ RawRow(src, src.nan).Close = NaN
  /\ pc = "done" /\ variant = "backtester"
  /\ Buys >= 1 /\ buy_markers[1][1] > NaNDate

\* the inputs whose closes are all equal
FlatTable ==
  [d \in Descs |->
     \A n \in 1 .. Len(Frames[d].rows) :
       Frames[d].rows[n].Close = Frames[d].rows[1].Close] @@ <<>>
\* C20: on a series whose closes are all equal, whatever its length, every
\* defined moving average equals the close, the strict buy chain is false at
\* every index, and the run never buys: no marker, no record, no position.
C20_FlatSeriesNoBuy ==
  (variant \in Variants /\ FlatTable[src]) =>
    /\ Buys = 0 /\ Sells = 0 /\ trades = <<>> /\ ~in_market
    /\ InLoop =>
         /\ ~BuyCondition(i)
         /\ \A w \in Windows :
              DMA_of(Row(i), w) # NaN => DMA_of(Row(i), w) = Close(i) * Scale
\* a finished run over a flat series of two plateaus and the row between them
C20_Witness ==
  /\ FlatTable[src] /\ pc = "done" /\ i = Len(data)
  /\ Len(data) = 2 * Plateau + 1
  /\ data[Len(data)].DMA_200 = data[1].Close * Scale

\* the ledger the last reporting run for this stock wrote to its summary file
PriorLedger ==
  IF stock_name \in DOMAIN summary_files THEN summary_files[stock_name] ELSE <<>>
FlatStart == [long |-> FALSE, bp |-> 0, held |-> NoShares, entry |-> None, ts |-> <<>>]
\* one pass of the loop body over row r
WalkStep(v, s, r) ==
  LET falling == /\ r.Close * Scale < r.DMA_20 /\ r.DMA_20 < r.DMA_50
                 /\ r.DMA_50 < r.DMA_100 /\ r.DMA_100 < r.DMA_200
      rising == /\ r.DMA_200 < r.DMA_100 /\ r.DMA_100 < r.DMA_50
                /\ r.DMA_50 < r.DMA_20 /\ r.DMA_20 < r.Close * Scale
  IN IF ~s.long /\ falling
     THEN [long |-> TRUE, bp |-> r.Close, held |-> Shares(investment, r.Close),
           entry |-> r.Date, ts |-> s.ts]
     ELSE IF s.long /\ rising /\ r.Close > s.bp
     THEN [long |-> FALSE, bp |-> 0, held |-> NoShares, entry |-> s.entry,
           ts |-> Append(s.ts, CompletedRecord(v, s.entry, r.Date, s.bp,
                                               r.Close, s.held))]
     ELSE s
RECURSIVE WalkRange(_, _, _, _, _)
\* the loop over the rows lo..hi from state s, the range taken in halves; the
\* state after the first half is computed before the second half is entered
\* (a position is never open at a price of 0)
WalkRange(v, rows, s, lo, hi) ==
  IF lo > hi THEN s
  ELSE IF lo = hi
  THEN IF LoopGuard(v, lo - 1) THEN WalkStep(v, s, rows[lo]) ELSE s
  ELSE LET mid == (lo + hi) \div 2
           left == WalkRange(v, rows, s, lo, mid)
       IN IF left.long /\ left.bp = 0 THEN left
          ELSE WalkRange(v, rows, left, mid + 1, hi)
WalkTo(v, rows, n) == WalkRange(v, rows, FlatStart, 1, n)
\* ... and the ledger at the end of the series
LedgerOf(v, rows) ==
  LET s == WalkTo(v, rows, Len(rows))
  IN IF s.long
     THEN Append(s.ts, HoldingRecord(v, s.entry, rows[Len(rows)].Date, s.bp,
                                     rows[Len(rows)].Close, s.held))
     ELSE s.ts
BatchLedgers ==
  [d \in BatchDescs |-> [v \in BatchVariants |-> LedgerOf(v, Frames[d].rows)]] @@ <<>>
\* the summary row as a function of the stock name and the ledger
RowOf(row, v, stock, ledger) ==
  /\ row.Stock = stock
  /\ row.Total_Profit_Loss = Num(total_profit(ledger))
  /\ row.Unrealized_PL =
       IF ledger # <<>> /\ ledger[Len(ledger)].Status = "Holding"
       THEN ledger[Len(ledger)].Profit_Loss ELSE Text("")
  /\ v = "backtester" => row.Number_of_Times_Entered_Market = Len(ledger)
\* C22: in a batch, the ledger of a symbol's run is the walk over that
\* symbol's own series and its summary row is made of its name and that
\* ledger, whatever runs came before and however they ended.
C22_SymbolsIndependent ==
  /\ [](driver # "none" /\ pc \in {"report", "done"} =>
          trades = BatchLedgers[src][variant])
  /\ [][(driver # "none" /\ pc = "report" /\ pc' = "done") =>
          /\ RowOf(consolidated_file'[Len(consolidated_file')], variant, stock_name,
                   BatchLedgers[src][variant])
          /\ WritesSummary(variant, trades) =>
               summary_files'[stock_name] = BatchLedgers[src][variant]]_vars
\* the second run of a batch has completed a trade after a first run that
\* found no data and wrote nothing
C22_Witness ==
  /\ driver = "waiting" /\ ticker = 2 /\ pc = "done"
  /\ Len(trades) = 1 /\ trades[1].Status = "Completed"
  /\ Len(DataRows(consolidated_file)) = 1

\* C23: no buy and no sell fires at an index i <= 199, in every DMA variant,
\* download_and_plot.py included: the earliest index of a buy is 200.
C23_WarmUp ==
  [][(variant \in Variants /\ (Buys' # Buys \/ Sells' # Sells)) => i > WarmUp]_vars

\* C24: on a series whose daily timestamps strictly increase, a sell fires at
\* an index after the entry index and at a later date, so every Completed
\* record has duration_in_days >= 1 and an annualized gain computed by the
\* duration_in_days > 0 branch; the division by a zero years_fraction is never
\* reached.
C24_DurationPositive ==
  /\ [](~src.dup =>
          /\ pc # "crashed"
          /\ \A k \in CompletedRows :
               /\ ExitOf(k) - EntryOf(k) >= 1
               /\ "pow" \in DOMAIN trades[k].Effective_Annual_Gain
               /\ trades[k].Effective_Annual_Gain.pow.days = ExitOf(k) - EntryOf(k))
  /\ [][(~src.dup /\ Sells' # Sells) =>
          i > entry_i /\ Row(i).Date - entry_date >= 1]_vars
\* a position sold on the day after it was bought
C24_Witness ==
  /\ ~src.dup /\ pc = "done" /\ CompletedRows # {}
  /\ ExitOf(1) - EntryOf(1) = 1
  /\ sell_markers[1][1] = buy_markers[1][1] + 1

\* C25: at every step of a DMA run, while in_market is false buy_price and
\* current_holding are 0; while it is true buy_price is the close of the most
\* recent buy index and is positive, current_holding is investment / buy_price
\* and entry_date is the date of that index.
C25_PositionConsistent ==
  variant \in Variants =>
    /\ ~in_market => buy_price = 0 /\ current_holding = NoShares
    /\ in_market =>
         /\ entry_i >= 0 /\ entry_i < i
         /\ buy_price = Close(entry_i) /\ buy_price > 0
         /\ current_holding = Shares(investment, buy_price)
         /\ entry_date = Row(entry_i).Date
         /\ buy_markers[Buys] = <<entry_date, buy_price>>
         /\ Sells = Buys - 1
\* a second position, opened at another price than the first, which was sold
C25_Witness ==
  /\ pc = "walk" /\ in_market /\ Buys = 2 /\ Sells = 1
  /\ buy_price = buy_markers[2][2] /\ buy_markers[2][2] # buy_markers[1][2]
  /\ trades[1].Buy_Price = Num(100 * buy_markers[1][2])

\* C26: the 'Number of Times Entered Market' of the backtester's summary row
\* is the number of buys fired during the walk: the number of Completed
\* records, plus one when the run ends with a position open.
C26_EntriesAreBuys ==
  (variant = "backtester" /\ pc = "done") =>
    /\ LastRow.Number_of_Times_Entered_Market = Buys
    /\ Buys = Cardinality(CompletedRows) + (IF in_market THEN 1 ELSE 0)
    /\ Sells = Cardinality(CompletedRows)
\* three buys, two of them sold, one still held at the end
C26_Witness ==
  /\ variant = "backtester" /\ pc = "done" /\ in_market
  /\ Buys = 3 /\ Cardinality(CompletedRows) = 2
  /\ LastRow.Number_of_Times_Entered_Market = 3

\* C27: when the run ends with a position open, the Holding record's
\* Profit/Loss is quantity * (last close - entry price), whatever its sign, and
\* its holding period is computed from the last timestamp of the series, in
\* every DMA variant.
C27_HoldingRecord ==
  \A h \in HoldingRows :
    LET last == data[Len(data)]
        duration_in_days == last.Date - entry_date
    IN /\ trades[h].Profit_Loss =
            Num(Round2(current_holding.n * (last.Close - buy_price), current_holding.d))
       /\ IF variant = "backtester"
          THEN trades[h].Holding_Period_Months =
                 Num(Round2(duration_in_days, DaysPerMonth))
          ELSE /\ trades[h].Holding_Period_Y = Num(duration_in_days \div DaysPerYear)
               /\ trades[h].Holding_Period_M =
                    Num((duration_in_days % DaysPerYear) \div DaysPerMonth)

\* all tickers have been handed to a child and the last child has been waited for
BatchOver == driver = "loop" /\ ticker = Len(stocks) /\ children = {}
\* C28: the batch driver hands every ticker of its list to a backtester once,
\* in list order, and comes to the end of the loop; after a run that exits
\* with a non-zero status it goes on with the next ticker.
C28_BatchTerminates ==
  /\ <>[]BatchOver
  /\ [][ticker' # ticker =>
          /\ ticker' = ticker + 1 /\ ticker' <= Len(stocks)
          /\ driver = "loop" /\ driver' = "waiting" /\ stocks' = stocks]_vars
  /\ [](driver \in {"loop", "waiting"})
  /\ \A n \in 1 .. BatchLen - 1 :
       (ticker = n /\ pc = "exit" /\ exit_status = 1) ~> (ticker = n + 1)
\* the batch is over and its first run had found no data
C28_Witness ==
  /\ BatchOver /\ pc = "done"
  /\ variant = "backtester"
  /\ Len(DataRows(consolidated_file)) = BatchLen - 1
  /\ stocks[1] \notin DOMAIN summary_files

OutputFiles == <<consolidated_file, trade_logs, summary_files>>
\* C29: when the provider returns no data, the backtester and
\* download_and_plot_2.py exit with status 1 before the walk; the step that
\* exits and every step up to the start of the next run leave the consolidated
\* summary, the trade log and the per-symbol summary files as they were.
C29_NoDataNoOutput ==
  /\ [][(pc = "download" /\ variant \in {"backtester", "plot2"} /\ RawLen(src) = 0) =>
          /\ pc' = "exit" /\ exit_status' = 1
          /\ i' = 0 /\ trades' = <<>>
          /\ OutputFiles' = OutputFiles]_vars
  /\ [][pc = "exit" =>
          /\ OutputFiles' = OutputFiles
          /\ pc' = "exit" \/ (pc' = "download" /\ ticker' = ticker + 1)]_vars
  /\ [](pc = "exit" => exit_status = 1 /\ i = 0 /\ trades = <<>> /\ RawLen(src) = 0)
\* the second run of a batch has exited on an empty response; the rows and the
\* summary file of the first run are on disk and nothing else is
C29_Witness ==
  /\ pc = "exit" /\ exit_status = 1 /\ ticker = 2 /\ driver = "loop"
  /\ Len(DataRows(consolidated_file)) = 1
  /\ DOMAIN summary_files = {stocks[1]}
  /\ stocks[2] # stocks[1]
  /\ Len(trade_logs) >= 1

IsHeaderLine(r) == "header" \in DOMAIN r
RECURSIVE InRunOrder(_, _, _)
\* the stocks of rows k.. are those of some of the runs n..ticker, in run order
InRunOrder(rows, k, n) ==
  IF k > Len(rows) THEN TRUE
  ELSE IF n > ticker THEN FALSE
  ELSE IF rows[k].Stock = stocks[n] THEN InRunOrder(rows, k + 1, n + 1)
  ELSE InRunOrder(rows, k, n + 1)
\* C30 as stated: once the runs 1..ticker of a sequence that started without
\* the file are over, the file is one header line followed by one data row
\* per run, in run order.
C30_OneRowPerRun ==
  (driver = "loop" /\ ticker >= 1) =>
    /\ Len(consolidated_file) = ticker + 1
    /\ IsHeaderLine(consolidated_file[1])
    /\ \A k \in 1 .. ticker :
         /\ ~IsHeaderLine(consolidated_file[k + 1])
         /\ consolidated_file[k + 1].Stock = stocks[k]
\* C30, amended: the file is absent until a run reports, and is from then on
\* one header line, as its first line, followed by data rows only: one per run
\* that reached its report, in run order.  A run adds its row at the end when
\* it reports and at no other step; the header is written with the row of the
\* run that finds the file absent and by no other.
C30_OneRowPerReport ==
  /\ [](\/ consolidated_file = <<>>
        \/ /\ Len(consolidated_file) >= 2
           /\ consolidated_file[1] = Header(variant)
           /\ \A k \in 2 .. Len(consolidated_file) : ~IsHeaderLine(consolidated_file[k]))
  /\ [](/\ Len(DataRows(consolidated_file)) <= ticker
        /\ InRunOrder(DataRows(consolidated_file), 1, 1)
        /\ pc = "done" =>
             consolidated_file[Len(consolidated_file)].Stock = stock_name)
  /\ [][IF pc = "report" /\ pc' = "done"
        THEN /\ consolidated_file = <<>> =>
                  Len(consolidated_file') = 2 /\ IsHeaderLine(consolidated_file'[1])
             /\ consolidated_file # <<>> =>
                  /\ Len(consolidated_file') = Len(consolidated_file) + 1
                  /\ SubSeq(consolidated_file', 1, Len(consolidated_file)) = consolidated_file
             /\ ~IsHeaderLine(consolidated_file'[Len(consolidated_file')])
        ELSE consolidated_file' = consolidated_file]_vars
\* two runs are over: the first found no data and left no file, the second
\* found the file absent and wrote the header and its row
C30_Witness ==
  /\ driver = "loop" /\ ticker = 2 /\ pc = "done"
  /\ stocks[1] # stocks[2]
  /\ Len(consolidated_file) = 2
  /\ IsHeaderLine(consolidated_file[1])
  /\ consolidated_file[2].Stock = stocks[2]

(* ------------------------------------------------------------------ *)
(* Runs of the script for two symbols that execute at the same time,   *)
(* in one directory.  What a run computes from its own download is     *)
(* private to its process; the runs meet in the files, where each      *)
(* os.path.isfile check and each to_csv call is a step of its own.     *)
(* A to_csv call is taken as one step: it opens, writes and closes.    *)
(* ------------------------------------------------------------------ *)
Pair == 1 .. 2
\* the variables of a run at the end of its walk, from its frame alone
RunOf(v, rows) ==
  LET s == WalkTo(v, rows, Len(rows))
  IN [trades |-> LedgerOf(v, rows),
      in_market |-> s.long,
      current_holding |-> s.held,
      unrealized_pnl |-> IF s.long THEN PnLNum(s.held, rows[Len(rows)].Close) ELSE 0]
BatchRuns == [d \in BatchDescs |-> [v \in BatchVariants |-> RunOf(v, Frames[d].rows)]] @@ <<>>
\* a run at the entry of main
NoRun == [trades |-> <<>>, in_market |-> FALSE, current_holding |-> NoShares,
          unrealized_pnl |-> 0]
Started(d) == [src |-> d, pc |-> "download", run |-> NoRun, found |-> FALSE]

ParallelInit ==
  /\ variant \in BatchVariants
  /\ src = NoResponse
  /\ pc = "idle"
  /\ exit_status = 0 - 1
  /\ i = 0
  /\ in_market = FALSE
  /\ buy_price = 0
  /\ current_holding = NoShares
  /\ entry_date = None
  /\ entry_i = None
  /\ trades = <<>>
  /\ buy_markers = <<>>
  /\ sell_markers = <<>>
  /\ unrealized_pnl = 0
  /\ consolidated_file = <<>>
  /\ trade_logs = <<>>
  /\ summary_files = <<>>
  /\ driver = "parallel"
  /\ stocks \in {s \in [Pair -> Stocks] : s[1] # s[2]}
  /\ ticker = 0
  /\ children = {}
  /\ workers \in [Pair -> {Started(d) : d \in BatchDescs}]
  /\ SwingIdle

par_unchanged == <<swing_vars, variant, src, pc, exit_status, i, walk_vars, unrealized_pnl,
                   driver, stocks, ticker, children>>

\* yf.download, the data.empty check, and the walk to the end of the series
WorkerWalk(w) ==
  /\ workers[w].pc = "download"
  /\ workers' = [workers EXCEPT ![w] =
       IF ChecksEmpty(variant) /\ Frames[workers[w].src].raw_empty
       THEN [@ EXCEPT !.pc = "exit"]
       ELSE [@ EXCEPT !.pc = "summary", !.run = BatchRuns[workers[w].src][variant]]]
  /\ UNCHANGED <<par_unchanged, consolidated_file, log_vars>>

\* trades_df.to_csv(f"{stock_name}_trade_summary.csv")
WorkerSummary(w) ==
  /\ workers[w].pc = "summary"
  /\ summary_files' =
       IF WritesSummary(variant, workers[w].run.trades)
       THEN (stocks[w] :> workers[w].run.trades) @@ summary_files
       ELSE summary_files
  /\ workers' = [workers EXCEPT ![w].pc =
       IF WritesLogs(variant, workers[w].run.trades) THEN "logs_check" ELSE "check"]
  /\ UNCHANGED <<par_unchanged, consolidated_file, trade_logs>>

\* os.path.isfile(trade_logs_file)
WorkerLogsCheck(w) ==
  /\ workers[w].pc = "logs_check"
  /\ workers' = [workers EXCEPT ![w].pc = "logs_write", ![w].found = trade_logs # <<>>]
  /\ UNCHANGED <<par_unchanged, consolidated_file, log_vars>>

\* to_csv(trade_logs_file) or to_csv(trade_logs_file, mode='a', header=False)
WorkerLogsWrite(w) ==
  /\ workers[w].pc = "logs_write"
  /\ trade_logs' =
       IF workers[w].found
       THEN trade_logs \o LogRows(stocks[w], workers[w].run.trades)
       ELSE <<LogHeader>> \o LogRows(stocks[w], workers[w].run.trades)
  /\ workers' = [workers EXCEPT ![w].pc = "check"]
  /\ UNCHANGED <<par_unchanged, consolidated_file, summary_files>>

\* os.path.isfile(consolidated_file)
WorkerCheck(w) ==
  /\ workers[w].pc = "check"
  /\ workers' = [workers EXCEPT ![w].pc = "write", ![w].found = consolidated_file # <<>>]
  /\ UNCHANGED <<par_unchanged, consolidated_file, log_vars>>

WorkerRow(w) ==
  consolidated_data(variant, stocks[w], workers[w].run.trades, workers[w].run.in_market,
                    workers[w].run.unrealized_pnl, workers[w].run.current_holding)

\* consolidated_df.to_csv(consolidated_file) or to_csv(mode='a', header=False)
WorkerWrite(w) ==
  /\ workers[w].pc = "write"
  /\ consolidated_file' =
       IF workers[w].found
       THEN Append(consolidated_file, WorkerRow(w))
       ELSE <<Header(variant), WorkerRow(w)>>
  /\ workers' = [workers EXCEPT ![w].pc = "done"]
  /\ UNCHANGED <<par_unchanged, log_vars>>

ParallelNext ==
  \E w \in Pair :
    \/ WorkerWalk(w)
    \/ WorkerSummary(w)
    \/ WorkerLogsCheck(w)
    \/ WorkerLogsWrite(w)
    \/ WorkerCheck(w)
    \/ WorkerWrite(w)

ParallelSpec == ParallelInit /\ [][ParallelNext]_vars

\* C31: when the runs of two symbols execute at the same time and both have
\* ended, the consolidated file has one header line, its first, and one data
\* row for each run that reported, whatever the order of their checks and
\* writes.
C31_NoRowLost ==
  (\A w \in Pair : workers[w].pc \in {"done", "exit"}) =>
    LET reported == {w \in Pair : workers[w].pc = "done"}
    IN /\ Len(DataRows(consolidated_file)) = Cardinality(reported)
       /\ \A w \in reported :
            Cardinality({k \in 1 .. Len(consolidated_file) :
                           consolidated_file[k] = WorkerRow(w)}) = 1
       /\ reported # {} =>
            /\ IsHeaderLine(consolidated_file[1])
            /\ Cardinality({k \in 1 .. Len(consolidated_file) :
                              IsHeaderLine(consolidated_file[k])}) = 1

\* C32: in the loops of analyze_stock (backtest_1_month.py and 'yf test.py')
\* the trade list alternates Buy, Sell, Buy, ... from a Buy; a position is
\* open exactly when the list ends with a Buy; a row adds at most one record,
\* a Buy only while no position is open and a Sell only while one is.
C32_Alternates ==
  /\ [](variant \in StockVariants =>
          /\ \A k \in 1 .. Len(trades) :
               trades[k].Action = IF k % 2 = 1 THEN "Buy" ELSE "Sell"
          /\ pc = "scan" => position = (Len(trades) % 2 = 1))
  /\ [][(variant \in StockVariants /\ i' = i + 1) =>
          \/ trades' = trades /\ position' = position
          \/ /\ ~position /\ position'
             /\ trades' = Append(trades, trades'[Len(trades')])
             /\ trades'[Len(trades')].Action = "Buy"
             /\ trades'[Len(trades')].Date = SRow(i).Date
          \/ /\ position /\ ~position'
             /\ trades' = Append(trades, trades'[Len(trades')])
             /\ trades'[Len(trades')].Action = "Sell"
             /\ trades'[Len(trades')].Date = SRow(i).Date]_vars
\* 'yf test.py' has bought again after a round trip
C32_Witness ==
  /\ variant = "yf_test" /\ pc = "scan" /\ position
  /\ Len(trades) = 3 /\ trades[3].Action = "Buy"
  /\ trades[2].Date < trades[3].Date

RECURSIVE stock_pnl(_)
\* sum([trade.get('Profit/Loss', 0) for trade in trades if 'Profit/Loss' in trade])
stock_pnl(ts) ==
  IF ts = <<>> THEN 0
  ELSE stock_pnl(SubSeq(ts, 1, Len(ts) - 1))
       + (IF "Profit_Loss" \in DOMAIN ts[Len(ts)] THEN ts[Len(ts)].Profit_Loss ELSE 0)
\* len([t for t in trades if t['Action'] == 'Sell'])
num_trades(ts) == Cardinality({k \in 1 .. Len(ts) : ts[k].Action = "Sell"})
\* the end of a swing-trade walk adds no sale and no profit
C33_SwingPart ==
  [][(variant \in SwingVariants /\ pc = "scan" /\ pc' = "returned") =>
       /\ num_trades(trades') = num_trades(trades)
       /\ stock_pnl(trades') = stock_pnl(trades)]_vars
\* the end of a DMA walk with a position open appends a Holding record and
\* neither a sell marker nor a Completed record
C33_LedgerPart ==
  [][(variant \in Variants /\ pc = "walk" /\ pc' = "report" /\ in_market) =>
       /\ Sells' = Sells
       /\ CompletedRows' = CompletedRows
       /\ trades'[Len(trades')].Status = "Holding"]_vars
\* ... and the total of the summary row leaves the open position out
C33_TotalPart ==
  (variant \in Variants /\ pc = "done" /\ in_market /\ WritesConsolidated(variant)) =>
    LastRow.Total_Profit_Loss = Num(RealizedSum(trades, Len(trades)))
\* C33: a position still open at the last index is not a sale: in every
\* variant the end of the walk records no sell for it, and it is counted
\* neither among the completed trades nor in the realized profit.
C33_OpenPositionNotSold ==
  /\ C33_SwingPart
  /\ C33_LedgerPart
  /\ []C33_TotalPart

\* C34: in TradeAnalyzer.calculate_trades at most one position is open: a BUY
\* is recorded only at an index where holdings is 0, so between two BUY
\* records there is a SELL record.
C34_OnePositionAnalyzer ==
  /\ [][(variant = "analyzer" /\ Len(trades') > Len(trades)
         /\ trades'[Len(trades')].Action = "BUY") => holdings = 0]_vars
  /\ [](variant = "analyzer" =>
          \A k \in 1 .. Len(trades) - 1 :
            trades[k].Action = "BUY" => trades[k + 1].Action = "SELL")

RECURSIVE OpenShares(_, _)
\* the shares of the BUY records dated up to date d that no SELL record dated
\* up to d follows
OpenShares(ts, d) ==
  IF ts = <<>> THEN 0
  ELSE LET r == ts[Len(ts)]
           before == SubSeq(ts, 1, Len(ts) - 1)
       IN IF r.Date > d THEN OpenShares(before, d)
          ELSE IF r.Action = "SELL" THEN 0
          ELSE r.Shares + OpenShares(before, d)
\* C35: in TradeAnalyzer.calculate_trades holdings is never negative; a SELL
\* is recorded only at an index with holdings > 0 and no buy signal, sells
\* all the shares held and leaves holdings and current_buy_value at 0; the
\* Holdings value stored for a row is the shares bought since the last SELL.
C35_HoldingsAccount ==
  /\ [](variant = "analyzer" =>
          /\ holdings >= 0
          /\ pc = "scan" => Len(current_holdings) = i
          /\ \A k \in 1 .. Len(current_holdings) :
               current_holdings[k] = OpenShares(trades, SwingRows[k].Date)
          /\ holdings = OpenShares(trades, Len(SwingRows)))
  /\ [][(variant = "analyzer" /\ Len(trades') > Len(trades)
         /\ trades'[Len(trades')].Action = "SELL") =>
          /\ holdings > 0 /\ ~Buy_Signal(SRow(i))
          /\ trades'[Len(trades')].Shares = holdings
          /\ trades'[Len(trades')].Date = SRow(i).Date
          /\ holdings' = 0 /\ current_buy_value' = 0
          /\ current_holdings'[i + 1] = 0]_vars
\* two buys in a row, then a sale of all the shares of both
C35_Witness ==
  /\ variant = "analyzer" /\ pc = "scan" /\ holdings = 0
  /\ Len(trades) = 3 /\ trades[3].Action = "SELL"
  /\ trades[3].Shares = trades[1].Shares + trades[2].Shares
  /\ current_holdings[i] = 0 /\ current_holdings[i - 1] = trades[3].Shares

RECURSIVE RoundTrips(_, _)
\* over the first n records: the profit of the closed round trips (sale value
\* less the value of the shares bought for the sale) and the cost of the
\* shares bought since the last SELL
RoundTrips(ts, n) ==
  IF n = 0 THEN [realized |-> 0, open |-> 0]
  ELSE LET p == RoundTrips(ts, n - 1)
           r == ts[n]
       IN IF r.Action = "BUY"
          THEN [realized |-> p.realized, open |-> p.open + r.Shares * r.Price]
          ELSE [realized |-> p.realized + r.Shares * r.Price - p.open, open |-> 0]
\* C36: in TradeAnalyzer.calculate_trades the Running_PnL recorded by a SELL,
\* after which holdings is 0, is the realized profit of the closed round
\* trips; the Running_PnL recorded while shares are held is the realized
\* profit less the cost of the open shares.
C36_RunningPnL ==
  variant = "analyzer" =>
    /\ \A k \in 1 .. Len(trades) :
         /\ trades[k].Running_PnL =
              RoundTrips(trades, k).realized - RoundTrips(trades, k).open
         /\ trades[k].Action = "SELL" =>
              /\ trades[k].Holdings = 0 /\ RoundTrips(trades, k).open = 0
              /\ trades[k].Running_PnL = RoundTrips(trades, k).realized
         /\ trades[k].Holdings > 0 =>
              /\ RoundTrips(trades, k).open > 0
              /\ trades[k].Running_PnL < RoundTrips(trades, k).realized
    /\ current_buy_value = RoundTrips(trades, Len(trades)).open
    /\ running_returns - running_investment =
         RoundTrips(trades, Len(trades)).realized - current_buy_value
    /\ holdings = 0 => current_buy_value = 0
\* a round trip with a profit, then a buy: the record of the buy shows the
\* profit less the cost of the shares just bought
C36_Witness ==
  /\ variant = "analyzer" /\ holdings > 0
  /\ Len(trades) = 3 /\ trades[2].Action = "SELL" /\ trades[3].Action = "BUY"
  /\ trades[2].Running_PnL > 0
  /\ trades[3].Running_PnL = trades[2].Running_PnL - trades[3].Value

\* C37: in the profit-target variant, with positive prices and Low Price <=
\* Close Price, no row has both signals: a buy signal puts the close below
\* SMA_20 and a sell signal above it.  The elif of calculate_trades therefore
\* never holds back a sale: a row with a sell signal and shares held sells.
C37_SignalsExclusive ==
  /\ [](variant = "analyzer" /\ pc = "scan" =>
          \A k \in 1 .. Len(SwingRows) :
            LET r == SwingRows[k]
            IN /\ ~(Buy_Signal(r) /\ Sell_Signal(r))
               /\ Buy_Signal(r) => r.Close * Scale < r.SMA_20
               /\ Sell_Signal(r) => r.Close * Scale > r.SMA_20
               /\ r.Close # NaN => r.Close > 0 /\ r.Low <= r.Close)
  /\ [][(InSwingLoop({"analyzer"}) /\ Sell_Signal(SRow(i)) /\ holdings > 0) =>
          /\ Len(trades') = Len(trades) + 1
          /\ trades'[Len(trades')].Action = "SELL"]_vars
\* a file whose lows are below its closes, with a row of each signal: the
\* shares bought on the one are sold on the other
C37_Witness ==
  /\ variant = "analyzer" /\ pc = "scan" /\ df.gap > 0
  /\ Len(trades) = 2 /\ trades[1].Action = "BUY" /\ trades[2].Action = "SELL"
  /\ Sell_Signal(SRow(i - 1)) /\ Buy_Signal(SRow(i - 2))
====
